---- MODULE Spec2Model ----
(***************************************************************************)
(* A model of the PSU interpreter, interpreter/main.py.                    *)
(*                                                                         *)
(* Script lines are character strings, as read from the script file; the   *)
(* regular expressions and string methods the interpreter applies to them  *)
(* are operators over strings.  execute_psu_script is a state machine: one *)
(* step starts an invocation (the reset of the module-level state and the  *)
(* read of the file), one checks the psload/psstart header, one step       *)
(* processes each script line (its closing pass and its command handler),  *)
(* one is the final cleanup and one writes the output file.                *)
(*                                                                         *)
(* Lines are held without their line terminator: the interpreter strips it *)
(* (str.strip) before it looks at a line, and the indentation it computes  *)
(* for a non-blank line does not depend on it.                             *)
(***************************************************************************)
EXTENDS Integers, Sequences, FiniteSets, TLC

\* ------------------------------------------------------------------------
\* Strings: the str methods and character classes the interpreter uses
\* ------------------------------------------------------------------------

Letters ==
  {"a","b","c","d","e","f","g","h","i","j","k","l","m",
   "n","o","p","q","r","s","t","u","v","w","x","y","z"}

UpperLetters ==
  {"A","B","C","D","E","F","G","H","I","J","K","L","M",
   "N","O","P","Q","R","S","T","U","V","W","X","Y","Z"}

Digits == {"0","1","2","3","4","5","6","7","8","9"}

\* \w of the re module (restricted to ASCII)
IsWord(c) == c \in Letters \cup UpperLetters \cup Digits \cup {"_"}

\* \s of the re module, and the characters str.strip() removes
IsSpace(c) == c \in {" ", "\t", "\n", "\r", "\f"}

\* s[i-1] where it exists, "" elsewhere
CharAt(s, i) == IF 1 <= i /\ i <= Len(s) THEN SubSeq(s, i, i) ELSE ""

\* s[i-1:]
From(s, i) == IF i <= Len(s) THEN SubSeq(s, i, Len(s)) ELSE ""

\* str.lstrip()
RECURSIVE LStrip(_)
LStrip(s) == IF Len(s) > 0 /\ IsSpace(Head(s)) THEN LStrip(Tail(s)) ELSE s

\* str.rstrip()
RECURSIVE RStrip(_)
RStrip(s) ==
  IF Len(s) > 0 /\ IsSpace(CharAt(s, Len(s)))
  THEN RStrip(SubSeq(s, 1, Len(s) - 1))
  ELSE s

\* str.strip()
Strip(s) == RStrip(LStrip(s))

\* str.rstrip(c) for a single character c
RECURSIVE RStripChar(_, _)
RStripChar(s, c) ==
  IF Len(s) > 0 /\ CharAt(s, Len(s)) = c
  THEN RStripChar(SubSeq(s, 1, Len(s) - 1), c)
  ELSE s

\* str.lstrip(c) for a single character c
RECURSIVE LStripChar(_, _)
LStripChar(s, c) ==
  IF Len(s) > 0 /\ Head(s) = c THEN LStripChar(Tail(s), c) ELSE s

\* str.strip(c) for a single character c
StripChar(s, c) == RStripChar(LStripChar(s, c), c)

\* str.startswith / str.endswith
StartsWith(s, p) == Len(s) >= Len(p) /\ SubSeq(s, 1, Len(p)) = p

EndsWith(s, p) ==
  Len(s) >= Len(p) /\ SubSeq(s, Len(s) - Len(p) + 1, Len(s)) = p

\* str.find(p, i): the first index >= i at which p occurs in s, 0 if none
RECURSIVE Find(_, _, _)
Find(s, p, i) ==
  IF i + Len(p) - 1 > Len(s) THEN 0
  ELSE IF SubSeq(s, i, i + Len(p) - 1) = p THEN i
  ELSE Find(s, p, i + 1)

\* the test  p in s
Contains(s, p) == Find(s, p, 1) > 0

\* str.rfind(c): the last index at which the character c occurs, 0 if none
RECURSIVE RFind(_, _)
RFind(s, c) ==
  IF Len(s) = 0 THEN 0
  ELSE IF CharAt(s, Len(s)) = c THEN Len(s)
  ELSE RFind(SubSeq(s, 1, Len(s) - 1), c)

UpperSeq == <<"A","B","C","D","E","F","G","H","I","J","K","L","M",
              "N","O","P","Q","R","S","T","U","V","W","X","Y","Z">>

LowerSeq == <<"a","b","c","d","e","f","g","h","i","j","k","l","m",
              "n","o","p","q","r","s","t","u","v","w","x","y","z">>

LowerChar(c) ==
  IF c \in UpperLetters
  THEN LowerSeq[CHOOSE i \in 1..26 : UpperSeq[i] = c]
  ELSE c

\* str.lower()
RECURSIVE Lower(_)
Lower(s) == IF Len(s) = 0 THEN "" ELSE LowerChar(Head(s)) \o Lower(Tail(s))

\* the length of the longest prefix of s made of \w characters
RECURSIVE WordLen(_)
WordLen(s) ==
  IF Len(s) > 0 /\ IsWord(Head(s)) THEN 1 + WordLen(Tail(s)) ELSE 0

\* the length of the longest prefix of s made of digits
RECURSIVE DigitLen(_)
DigitLen(s) ==
  IF Len(s) > 0 /\ Head(s) \in Digits THEN 1 + DigitLen(Tail(s)) ELSE 0

\* "    " * n
RECURSIVE Spaces4(_)
Spaces4(n) == IF n <= 0 THEN "" ELSE "    " \o Spaces4(n - 1)

\* '\n'.join(seq), ' '.join(seq)
RECURSIVE JoinWith(_, _)
JoinWith(seq, sep) ==
  IF Len(seq) = 0 THEN ""
  ELSE IF Len(seq) = 1 THEN seq[1]
  ELSE seq[1] \o sep \o JoinWith(Tail(seq), sep)

DigitValue(c) == CHOOSE n \in 0..9 : ToString(n) = c

\* int(s) for a string of decimal digits
RECURSIVE IntOfDigits(_)
IntOfDigits(s) ==
  IF Len(s) = 0 THEN 0
  ELSE 10 * IntOfDigits(SubSeq(s, 1, Len(s) - 1)) + DigitValue(CharAt(s, Len(s)))

Last(seq) == seq[Len(seq)]

Front(seq) == SubSeq(seq, 1, Len(seq) - 1)

\* ------------------------------------------------------------------------
\* Values of PSU variables (Python str, bool, int, float and None)
\* ------------------------------------------------------------------------

StrV(s) == [k |-> "str", s |-> s, n |-> 0, b |-> FALSE]

BoolV(b) == [k |-> "bool", s |-> "", n |-> 0, b |-> b]

IntV(n) == [k |-> "int", s |-> "", n |-> n, b |-> FALSE]

\* a float: s is its repr; b says it is integral and n is then its value
FloatV(repr, integral, n) == [k |-> "float", s |-> repr, n |-> n, b |-> integral]

NoneV == [k |-> "none", s |-> "", n |-> 0, b |-> FALSE]

\* str(value)
Str(v) ==
  CASE v.k = "str" -> v.s
    [] v.k = "bool" -> (IF v.b THEN "True" ELSE "False")
    [] v.k = "int" -> ToString(v.n)
    [] v.k = "float" -> v.s
    [] OTHER -> "None"

\* bool(value)
Truthy(v) ==
  CASE v.k = "str" -> Len(v.s) > 0
    [] v.k = "bool" -> v.b
    [] v.k = "int" -> v.n # 0
    [] v.k = "float" -> ~(v.s \in {"0.0", "-0.0"})
    [] OTHER -> FALSE

\* the empty dict
EmptyDict == [x \in {} |-> NoneV]

\* d[key] = value
DictSet(d, key, value) == (key :> value) @@ d

\* d.get(key, default)
DictGet(d, key, default) == IF key \in DOMAIN d THEN d[key] ELSE default

\* ------------------------------------------------------------------------
\* interpolate_variables and parse_attributes
\* ------------------------------------------------------------------------

\* replace_var, with the name itself for a variable that is not set
ReplaceVar_PlainName(var_name, vars) ==
  IF var_name \in DOMAIN vars THEN Str(vars[var_name])
  ELSE var_name

\* replace_var: the replacement for one match of \$\{(\w+)\}
ReplaceVar(var_name, vars) ==
  IF var_name \in DOMAIN vars THEN Str(vars[var_name])
  ELSE "UNDEFINED_VAR_" \o var_name

\* re.sub(r'\$\{(\w+)\}', replace_var, text): at each position, left to right,
\* "${", the longest run of \w (at least one) and "}" are replaced; any other
\* character is copied
RECURSIVE InterpolateVariables(_, _)
InterpolateVariables(text, vars) ==
  IF Len(text) = 0 THEN ""
  ELSE
    LET n == WordLen(From(text, 3)) IN
    IF StartsWith(text, "${") /\ n >= 1 /\ CharAt(text, n + 3) = "}"
    THEN ReplaceVar(SubSeq(text, 3, n + 2), vars)
           \o InterpolateVariables(From(text, n + 4), vars)
    ELSE Head(text) \o InterpolateVariables(Tail(text), vars)

\* the length of the longest prefix matching [^"\s,]*
RECURSIVE BareLen(_)
BareLen(s) ==
  IF Len(s) > 0 /\ ~IsSpace(Head(s)) /\ Head(s) # "\"" /\ Head(s) # ","
  THEN 1 + BareLen(Tail(s))
  ELSE 0

\* re.findall(r'(\w+)=(?:"([^"]*)"|([^"\s,]+))', s): the matches, left to
\* right, as <<key, val1, val2>>; a group that took no part is ''
RECURSIVE AttrFindAll(_)
AttrFindAll(s) ==
  IF Len(s) = 0 THEN <<>>
  ELSE
    LET n == WordLen(s)
        rest == From(s, n + 2)
        q == Find(rest, "\"", 2)
        m == BareLen(rest)
    IN
    IF n >= 1 /\ CharAt(s, n + 1) = "="
    THEN IF StartsWith(rest, "\"") /\ q > 0
         THEN <<(<<SubSeq(s, 1, n), SubSeq(rest, 2, q - 1), "">>)>>
                \o AttrFindAll(From(rest, q + 1))
         ELSE IF m >= 1
         THEN <<(<<SubSeq(s, 1, n), "", SubSeq(rest, 1, m)>>)>>
                \o AttrFindAll(From(rest, m + 1))
         ELSE AttrFindAll(Tail(s))
    ELSE AttrFindAll(Tail(s))

\* an insertion-ordered dict as a sequence of [key, val]: d[key] = val
ODictSet(d, key, val) ==
  IF \E i \in 1..Len(d) : d[i].key = key
  THEN [i \in 1..Len(d) |-> IF d[i].key = key THEN [key |-> key, val |-> val] ELSE d[i]]
  ELSE Append(d, [key |-> key, val |-> val])

ODictHas(d, key) == \E i \in 1..Len(d) : d[i].key = key

\* d.get(key, '')
ODictGet(d, key) ==
  IF ODictHas(d, key) THEN d[CHOOSE i \in 1..Len(d) : d[i].key = key].val ELSE ""

RECURSIVE AttrFill(_, _)
AttrFill(d, matches) ==
  IF Len(matches) = 0 THEN d
  ELSE AttrFill(ODictSet(d, matches[1][1], matches[1][2]), Tail(matches))

\* parse_attributes: every match stores its first value group, the quoted
\* one, which findall gives as '' (never None) when the unquoted form matched
ParseAttributes(attr_string) ==
  IF Len(attr_string) = 0 THEN <<>> ELSE AttrFill(<<>>, AttrFindAll(attr_string))

\* ' '.join([f'{k}="{interpolate_variables(v)}"' for k, v in attrs.items()])
AttrStrHtml(attrs, vars) ==
  JoinWith([i \in 1..Len(attrs) |->
              attrs[i].key \o "=\"" \o InterpolateVariables(attrs[i].val, vars) \o "\""],
           " ")

\* ------------------------------------------------------------------------
\* The regular expressions of the command handlers
\* ------------------------------------------------------------------------

\* re.match(r'(\w+)\s*(.*)', trimmed_line); arg_string is group(2).strip()
CommandMatch(trimmed_line) ==
  LET n == WordLen(trimmed_line) IN
  [ok |-> n >= 1,
   command |-> SubSeq(trimmed_line, 1, n),
   arg_string |-> Strip(From(trimmed_line, n + 1))]

\* the colon check: a trailing run of ':' is removed from arg_string
StripColon(arg_string) ==
  IF EndsWith(arg_string, ":") THEN Strip(RStripChar(arg_string, ":")) ELSE arg_string

NoMatch == [ok |-> FALSE, g1 |-> "", g2 |-> "", g3 |-> ""]

\* re.match(r'"([^"]+)"\s*(.*)', s)
QuotedMatch(s) ==
  LET q == Find(s, "\"", 2) IN
  IF StartsWith(s, "\"") /\ q >= 3
  THEN [ok |-> TRUE, g1 |-> SubSeq(s, 2, q - 1), g2 |-> LStrip(From(s, q + 1)), g3 |-> ""]
  ELSE NoMatch

\* re.match(r'"([^"]+)"\s*"([^"]+)"\s*(.*)', s)
LinkMatch(s) ==
  LET m1 == QuotedMatch(s)
      m2 == QuotedMatch(m1.g2)
  IN
  IF m1.ok /\ m2.ok
  THEN [ok |-> TRUE, g1 |-> m1.g1, g2 |-> m2.g1, g3 |-> m2.g2]
  ELSE NoMatch

\* re.match(r'level=(\d+)\s*"([^"]+)"\s*(.*)', s)
HeadingMatch(s) ==
  LET d == DigitLen(From(s, 7))
      m == QuotedMatch(LStrip(From(s, 7 + d)))
  IN
  IF StartsWith(s, "level=") /\ d >= 1 /\ m.ok
  THEN [ok |-> TRUE, g1 |-> SubSeq(s, 7, 6 + d), g2 |-> m.g1, g3 |-> m.g2]
  ELSE NoMatch

\* re.match(r'type="(ordered|unordered)"\s*(.*)', s)
ListMatch(s) ==
  IF StartsWith(s, "type=\"ordered\"")
  THEN [ok |-> TRUE, g1 |-> "ordered", g2 |-> LStrip(From(s, 15)), g3 |-> ""]
  ELSE IF StartsWith(s, "type=\"unordered\"")
  THEN [ok |-> TRUE, g1 |-> "unordered", g2 |-> LStrip(From(s, 17)), g3 |-> ""]
  ELSE NoMatch

\* re.match(r'title="([^"]+)"\s*(.*)', s)
CardMatch(s) ==
  LET m == QuotedMatch(From(s, 7)) IN
  IF StartsWith(s, "title=") /\ m.ok THEN m ELSE NoMatch

\* re.match(r'(\w+)\s*=\s*(.+);', s): the name, then '=', then at least one
\* character up to the last ';' of the string
SetMatch(s) ==
  LET n == WordLen(s)
      after == LStrip(From(s, n + 1))
      body == From(after, 2)
      j == RFind(body, ";")
  IN
  IF n >= 1 /\ StartsWith(after, "=") /\ j >= 2
  THEN [ok |-> TRUE, g1 |-> SubSeq(s, 1, n), g2 |-> SubSeq(body, 1, j - 1), g3 |-> ""]
  ELSE NoMatch

\* re.match(r'^-?\d+(\.\d+)?$', s)
NumberMatch(s) ==
  LET t == IF StartsWith(s, "-") THEN Tail(s) ELSE s
      d == DigitLen(t)
      r == From(t, d + 1)
      e == DigitLen(From(r, 2))
  IN
  /\ d >= 1
  /\ IF Len(r) = 0 THEN TRUE
     ELSE StartsWith(r, ".") /\ e >= 1 /\ Len(r) = e + 1

\* int(s) of a string matching -?\d+
IntOf(s) ==
  IF StartsWith(s, "-") THEN 0 - IntOfDigits(Tail(s)) ELSE IntOfDigits(s)

\* float(s) of a string matching -?\d+\.\d+: the repr drops the leading zeros
\* of the integer part and the trailing zeros of the fraction
FloatOf(s) ==
  LET neg == StartsWith(s, "-")
      t == IF neg THEN Tail(s) ELSE s
      dot == Find(t, ".", 1)
      ip == IntOfDigits(SubSeq(t, 1, dot - 1))
      fr == RStripChar(From(t, dot + 1), "0")
      repr == (IF neg THEN "-" ELSE "") \o ToString(ip) \o "."
                \o (IF Len(fr) = 0 THEN "0" ELSE fr)
  IN FloatV(repr, Len(fr) = 0, IF neg THEN 0 - ip ELSE ip)

\* str.replace(old, new) for a non-empty old
RECURSIVE Replace(_, _, _)
Replace(s, old, new) ==
  IF Len(s) = 0 THEN ""
  ELSE IF StartsWith(s, old) THEN new \o Replace(From(s, Len(old) + 1), old, new)
  ELSE Head(s) \o Replace(Tail(s), old, new)

\* ------------------------------------------------------------------------
\* eval(value_expr, safe_globals, variables)
\*
\* The Python expressions modelled are  atom  and  atom op atom , where an
\* atom is a decimal integer, a double-quoted string, True, False, None or a
\* name and op is one of + - * / ; a text outside this grammar is taken as a
\* SyntaxError, so the scripts the model runs keep to it.  A float result is
\* represented exactly when it is integral.
\* ------------------------------------------------------------------------

NoAtom == [ok |-> FALSE, kind |-> "", text |-> "", rest |-> ""]

ParseAtom(s) ==
  LET q == Find(s, "\"", 2)
      d == DigitLen(s)
      n == WordLen(s)
  IN
  IF StartsWith(s, "\"")
  THEN IF q > 0
       THEN [ok |-> TRUE, kind |-> "str", text |-> SubSeq(s, 2, q - 1), rest |-> From(s, q + 1)]
       ELSE NoAtom
  ELSE IF d >= 1
  THEN IF n = d /\ ~(d > 1 /\ Head(s) = "0" /\ IntOfDigits(SubSeq(s, 1, d)) # 0)
       THEN [ok |-> TRUE, kind |-> "int", text |-> SubSeq(s, 1, d), rest |-> From(s, d + 1)]
       ELSE NoAtom
  ELSE IF n >= 1
  THEN [ok |-> TRUE, kind |-> "name", text |-> SubSeq(s, 1, n), rest |-> From(s, n + 1)]
  ELSE NoAtom

Raised(exc) == [exc |-> exc, val |-> NoneV]

Returned(v) == [exc |-> "", val |-> v]

\* the value of an atom; a name is looked up in the locals (the variable store)
AtomValue(a, vars) ==
  CASE a.kind = "str" -> Returned(StrV(a.text))
    [] a.kind = "int" -> Returned(IntV(IntOfDigits(a.text)))
    [] a.text = "True" -> Returned(BoolV(TRUE))
    [] a.text = "False" -> Returned(BoolV(FALSE))
    [] a.text = "None" -> Returned(NoneV)
    [] a.text \in DOMAIN vars -> Returned(vars[a.text])
    [] OTHER -> Raised("NameError")

IsNum(v) == v.k \in {"int", "bool", "float"}

NumOf(v) == IF v.k = "bool" THEN (IF v.b THEN 1 ELSE 0) ELSE v.n

NumResult(a, b, n) ==
  IF a.k = "float" \/ b.k = "float"
  THEN FloatV(ToString(n) \o ".0", TRUE, n)
  ELSE IntV(n)

RECURSIVE Repeat(_, _)
Repeat(s, n) == IF n <= 0 THEN "" ELSE s \o Repeat(s, n - 1)

BinOp(op, a, b) ==
  CASE op = "+" /\ IsNum(a) /\ IsNum(b) -> Returned(NumResult(a, b, NumOf(a) + NumOf(b)))
    [] op = "+" /\ a.k = "str" /\ b.k = "str" -> Returned(StrV(a.s \o b.s))
    [] op = "-" /\ IsNum(a) /\ IsNum(b) -> Returned(NumResult(a, b, NumOf(a) - NumOf(b)))
    [] op = "*" /\ IsNum(a) /\ IsNum(b) -> Returned(NumResult(a, b, NumOf(a) * NumOf(b)))
    [] op = "*" /\ a.k = "str" /\ b.k \in {"int", "bool"} -> Returned(StrV(Repeat(a.s, NumOf(b))))
    [] op = "*" /\ b.k = "str" /\ a.k \in {"int", "bool"} -> Returned(StrV(Repeat(b.s, NumOf(a))))
    [] op = "/" /\ IsNum(a) /\ IsNum(b) ->
         IF NumOf(b) = 0 THEN Raised("ZeroDivisionError")
         ELSE IF NumOf(a) % NumOf(b) = 0
         THEN Returned(FloatV(ToString(NumOf(a) \div NumOf(b)) \o ".0", TRUE,
                              NumOf(a) \div NumOf(b)))
         ELSE Returned(FloatV(ToString(NumOf(a)) \o "/" \o ToString(NumOf(b)), FALSE, 0))
    [] OTHER -> Raised("TypeError")

EvalExpr(value_expr, vars) ==
  LET a == ParseAtom(LStrip(value_expr))
      r1 == LStrip(a.rest)
      op == CharAt(r1, 1)
      b == ParseAtom(LStrip(From(r1, 2)))
      va == AtomValue(a, vars)
      vb == AtomValue(b, vars)
  IN
  IF ~a.ok THEN Raised("SyntaxError")
  ELSE IF Len(r1) = 0 THEN va
  ELSE IF ~(op \in {"+", "-", "*", "/"} /\ b.ok /\ Len(Strip(b.rest)) = 0)
  THEN Raised("SyntaxError")
  ELSE IF va.exc # "" THEN va
  ELSE IF vb.exc # "" THEN vb
  ELSE BinOp(op, va.val, vb.val)

\* ------------------------------------------------------------------------
\* The state of one invocation, as the handlers see it: the four module-level
\* variables (variables, html_output_buffer, output_filename,
\* html_tag_stack), the locals of execute_psu_script, what was printed, and
\* the exception raised in the current step, if any
\* ------------------------------------------------------------------------

\* a block_stack entry: (indent_level, 'command_type', {'html_tag': ...})
Frame(indent, cmd_type, html_tag) ==
  [indent |-> indent, cmd_type |-> cmd_type, html_tag |-> html_tag]

\* get_html_indent
GetHtmlIndent(st) == Spaces4(Len(st.html_tag_stack))

\* append_html_line, with the line put first
AppendHtmlLine_Prepends(st, html_content) ==
  [st EXCEPT !.html_output_buffer = <<GetHtmlIndent(st) \o html_content>> \o @]

\* append_html_line
AppendHtmlLine(st, html_content) ==
  [st EXCEPT !.html_output_buffer = Append(@, GetHtmlIndent(st) \o html_content)]

\* html_tag_stack.append(tag)
PushTag(st, tag) == [st EXCEPT !.html_tag_stack = Append(@, tag)]

\* html_tag_stack.pop()
PopTag(st) == [st EXCEPT !.html_tag_stack = Front(@)]

\* if html_tag_stack and html_tag_stack[-1] == tag: html_tag_stack.pop()
PopTagIfTop(st, tag) ==
  IF Len(st.html_tag_stack) > 0 /\ Last(st.html_tag_stack) = tag THEN PopTag(st) ELSE st

\* block_stack.append((line_indent_spaces, cmd_type, data))
PushBlock(st, indent, cmd_type, html_tag) ==
  [st EXCEPT !.block_stack = Append(@, Frame(indent, cmd_type, html_tag))]

\* print(message)
PrintLine(st, message) == [st EXCEPT !.stdout = Append(@, message)]

\* raise exc(message)
Raise(st, exc, message) == [st EXCEPT !.raised = exc, !.message = message]

\* one iteration of the closing loop, with the skip flag left as it is
CloseOne_KeepsSkip(st) ==
  LET f == Last(st.block_stack)
      s1 == [st EXCEPT !.block_stack = Front(@)]
      ifs == Front(st.if_conditions_met_stack)
      s2 == IF f.cmd_type = "if"
            THEN IF Len(st.if_conditions_met_stack) = 0
                 THEN Raise(s1, "IndexError", "pop from empty list")
                 ELSE [s1 EXCEPT !.if_conditions_met_stack = ifs]
            ELSE s1
  IN
  IF s2.raised # "" THEN s2
  ELSE IF f.cmd_type = "page"
  THEN AppendHtmlLine(AppendHtmlLine(s2, "    </body>"), "</html>")
  ELSE IF f.cmd_type \in {"section", "container", "list"}
  THEN PopTagIfTop(AppendHtmlLine(s2, "</" \o f.html_tag \o ">"), f.html_tag)
  ELSE IF f.cmd_type = "card"
  THEN PopTagIfTop(AppendHtmlLine(s2, "</div>"), "div")
  ELSE IF f.cmd_type \in {"card_body", "card_footer"}
  THEN PopTagIfTop(AppendHtmlLine(s2, "</div>"), "div")
  ELSE s2

\* one iteration of the closing loop: the top frame is popped, an if frame
\* pops its entry of if_conditions_met_stack and resets the skip flag from the
\* entry then on top, and the frame's closing tags are appended
CloseOne(st) ==
  LET f == Last(st.block_stack)
      s1 == [st EXCEPT !.block_stack = Front(@)]
      ifs == Front(st.if_conditions_met_stack)
      s2 == IF f.cmd_type = "if"
            THEN IF Len(st.if_conditions_met_stack) = 0
                 THEN Raise(s1, "IndexError", "pop from empty list")
                 ELSE [s1 EXCEPT !.if_conditions_met_stack = ifs,
                                 !.skip_current_block =
                                    IF Len(ifs) = 0 THEN FALSE ELSE ~Last(ifs)]
            ELSE s1
  IN
  IF s2.raised # "" THEN s2
  ELSE IF f.cmd_type = "page"
  THEN AppendHtmlLine(AppendHtmlLine(s2, "    </body>"), "</html>")
  ELSE IF f.cmd_type \in {"section", "container", "list"}
  THEN PopTagIfTop(AppendHtmlLine(s2, "</" \o f.html_tag \o ">"), f.html_tag)
  ELSE IF f.cmd_type = "card"
  THEN PopTagIfTop(AppendHtmlLine(s2, "</div>"), "div")
  ELSE IF f.cmd_type \in {"card_body", "card_footer"}
  THEN PopTagIfTop(AppendHtmlLine(s2, "</div>"), "div")
  ELSE s2

\* the closing loop as an if: at most one frame is closed
ClosePass_OnlyOne(st, line_indent_spaces) ==
  IF /\ st.raised = ""
     /\ Len(st.block_stack) > 0
     /\ line_indent_spaces <= Last(st.block_stack).indent
  THEN CloseOne(st)
  ELSE st

\* while block_stack and line_indent_spaces <= block_stack[-1][0]: ...
RECURSIVE ClosePass(_, _)
ClosePass(st, line_indent_spaces) ==
  IF /\ st.raised = ""
     /\ Len(st.block_stack) > 0
     /\ line_indent_spaces <= Last(st.block_stack).indent
  THEN ClosePass(CloseOne(st), line_indent_spaces)
  ELSE st

\* one iteration of the final cleanup: a page frame emits nothing there, and
\* an if frame leaves if_conditions_met_stack alone
CleanupOne(st) ==
  LET f == Last(st.block_stack)
      s1 == [st EXCEPT !.block_stack = Front(@)]
  IN
  IF f.cmd_type = "page" THEN s1
  ELSE IF f.cmd_type \in {"section", "container", "list"}
  THEN PopTagIfTop(AppendHtmlLine(s1, "</" \o f.html_tag \o ">"), f.html_tag)
  ELSE IF f.cmd_type = "card"
  THEN PopTagIfTop(AppendHtmlLine(s1, "</div>"), "div")
  ELSE IF f.cmd_type \in {"card_body", "card_footer"}
  THEN PopTagIfTop(AppendHtmlLine(s1, "</div>"), "div")
  ELSE s1

\* while block_stack: ...
RECURSIVE FinalCleanup(_)
FinalCleanup(st) ==
  IF Len(st.block_stack) > 0 THEN FinalCleanup(CleanupOne(st)) ELSE st

\* ------------------------------------------------------------------------
\* The command handlers: each takes the state after the closing pass, the
\* argument string (colon removed) and the indentation of the line.  The
\* messages are held without the grave accents that quote command names in
\* the source.
\* ------------------------------------------------------------------------

\* output_html
DoOutputHtml(st, arg_string) ==
  LET m == QuotedMatch(arg_string) IN
  IF m.ok THEN [st EXCEPT !.output_filename = m.g1]
  ELSE Raise(st, "ValueError", "output_html expects a quoted filename.")

\* set
DoSet(st, arg_string) ==
  LET m == SetMatch(arg_string)
      var_name == m.g1
      value_expr == Strip(m.g2)
      e == EvalExpr(value_expr, st.variables)
      store(v) == [st EXCEPT !.variables = DictSet(@, var_name, v)]
  IN
  IF ~m.ok THEN Raise(st, "ValueError", "Invalid set command syntax.")
  ELSE IF StartsWith(value_expr, "\"") /\ EndsWith(value_expr, "\"")
  THEN store(StrV(StripChar(value_expr, "\"")))
  ELSE IF Lower(value_expr) \in {"true", "false"}
  THEN store(BoolV(Lower(value_expr) = "true"))
  ELSE IF NumberMatch(value_expr)
  THEN store(IF Contains(value_expr, ".") THEN FloatOf(value_expr)
             ELSE IntV(IntOf(value_expr)))
  ELSE IF e.exc = "" THEN store(e.val)
  ELSE IF e.exc \in {"NameError", "SyntaxError", "TypeError"}
  THEN PrintLine(store(NoneV), "Warning: Could not evaluate expression for '" \o var_name
                                 \o "': '" \o value_expr \o "'")
  ELSE Raise(st, e.exc, IF e.exc = "ZeroDivisionError" THEN "division by zero" ELSE e.exc)

\* the optional lines of the head: stylesheet, script, favicon
PageHeadExtras(st, page_attrs) ==
  LET s1 == IF ODictHas(page_attrs, "stylesheet")
            THEN AppendHtmlLine(st, "    <link rel=\"stylesheet\" href=\""
                                      \o ODictGet(page_attrs, "stylesheet") \o "\">")
            ELSE st
      s2 == IF ODictHas(page_attrs, "script")
            THEN AppendHtmlLine(s1, "    <script src=\""
                                      \o ODictGet(page_attrs, "script") \o "\"></script>")
            ELSE s1
  IN
  IF ODictHas(page_attrs, "favicon")
  THEN AppendHtmlLine(s2, "    <link rel=\"icon\" href=\""
                            \o ODictGet(page_attrs, "favicon") \o "\">")
  ELSE s2

\* page
DoPage(st, arg_string, line_indent_spaces) ==
  LET m == QuotedMatch(arg_string)
      page_attrs == ParseAttributes(Strip(m.g2))
      s1 == AppendHtmlLine(st, "<!DOCTYPE html>")
      s2 == PushTag(AppendHtmlLine(s1, "<html>"), "html")
      s3 == PushTag(AppendHtmlLine(s2, "<head>"), "head")
      s4 == AppendHtmlLine(s3, "    <title>"
                                 \o InterpolateVariables(m.g1, st.variables) \o "</title>")
      s5 == PageHeadExtras(s4, page_attrs)
      s6 == PopTag(AppendHtmlLine(s5, "</head>"))
      s7 == PushTag(AppendHtmlLine(s6, "<body>"), "body")
  IN
  IF m.ok THEN PushBlock(s7, line_indent_spaces, "page", "")
  ELSE Raise(st, "ValueError", "Invalid page command syntax.")

\* meta_info
DoMetaInfo(st, arg_string) ==
  AppendHtmlLine(st, "<meta " \o AttrStrHtml(ParseAttributes(arg_string), st.variables) \o ">")

\* the attributes of a section without full_width
FilteredAttrs(attrs) == SelectSeq(attrs, LAMBDA a : a.key # "full_width")

\* section
DoSection(st, arg_string, line_indent_spaces) ==
  LET m == QuotedMatch(arg_string)
      attrs == ParseAttributes(Strip(m.g2))
      extra_class == IF ODictHas(attrs, "full_width")
                        /\ Lower(ODictGet(attrs, "full_width")) = "true"
                     THEN " full-width-section" ELSE ""
      existing_class == ODictGet(attrs, "class")
      final_class == IF Len(existing_class) > 0 \/ Len(extra_class) > 0
                     THEN Strip("class=\"" \o existing_class \o extra_class \o "\"")
                     ELSE ""
      attr_str_html == AttrStrHtml(FilteredAttrs(attrs), st.variables)
      s1 == AppendHtmlLine(st, Strip("<section id=\""
                                       \o InterpolateVariables(m.g1, st.variables)
                                       \o "\" " \o final_class \o " " \o attr_str_html \o ">"))
  IN
  IF m.ok THEN PushBlock(PushTag(s1, "section"), line_indent_spaces, "section", "section")
  ELSE Raise(st, "ValueError", "Invalid section command syntax.")

\* container
DoContainer(st, arg_string, line_indent_spaces) ==
  LET s1 == AppendHtmlLine(st, "<div " \o AttrStrHtml(ParseAttributes(arg_string), st.variables)
                                 \o ">")
  IN PushBlock(PushTag(s1, "div"), line_indent_spaces, "container", "div")

\* heading
DoHeading(st, arg_string) ==
  LET m == HeadingMatch(arg_string)
      level == IntOfDigits(m.g1)
      attr_str_html == AttrStrHtml(ParseAttributes(Strip(m.g3)), st.variables)
  IN
  IF ~m.ok THEN Raise(st, "ValueError", "Invalid heading command syntax.")
  ELSE IF ~(1 <= level /\ level <= 6)
  THEN Raise(st, "ValueError", "Heading level must be between 1 and 6.")
  ELSE AppendHtmlLine(st, "<h" \o ToString(level) \o " " \o attr_str_html \o ">"
                            \o InterpolateVariables(m.g2, st.variables)
                            \o "</h" \o ToString(level) \o ">")

\* paragraph
DoParagraph(st, arg_string) ==
  LET m == QuotedMatch(arg_string)
      attr_str_html == AttrStrHtml(ParseAttributes(Strip(m.g2)), st.variables)
  IN
  IF m.ok
  THEN AppendHtmlLine(st, "<p " \o attr_str_html \o ">"
                            \o InterpolateVariables(m.g1, st.variables) \o "</p>")
  ELSE Raise(st, "ValueError", "Invalid paragraph command syntax.")

\* image
DoImage(st, arg_string) ==
  LET m == QuotedMatch(arg_string)
      attr_str_html == AttrStrHtml(ParseAttributes(Strip(m.g2)), st.variables)
  IN
  IF m.ok
  THEN AppendHtmlLine(st, "<img src=\"" \o InterpolateVariables(m.g1, st.variables)
                            \o "\" " \o attr_str_html \o ">")
  ELSE Raise(st, "ValueError", "Invalid image command syntax.")

\* button
DoButton(st, arg_string) ==
  LET m == QuotedMatch(arg_string)
      attr_str_html == AttrStrHtml(ParseAttributes(Strip(m.g2)), st.variables)
  IN
  IF m.ok
  THEN AppendHtmlLine(st, "<button " \o attr_str_html \o ">"
                            \o InterpolateVariables(m.g1, st.variables) \o "</button>")
  ELSE Raise(st, "ValueError", "Invalid button command syntax.")

\* link
DoLink(st, arg_string) ==
  LET m == LinkMatch(arg_string)
      attr_str_html == AttrStrHtml(ParseAttributes(Strip(m.g3)), st.variables)
  IN
  IF m.ok
  THEN AppendHtmlLine(st, "<a href=\"" \o InterpolateVariables(m.g2, st.variables)
                            \o "\" " \o attr_str_html \o ">"
                            \o InterpolateVariables(m.g1, st.variables) \o "</a>")
  ELSE Raise(st, "ValueError", "Invalid link command syntax.")

\* list
DoList(st, arg_string, line_indent_spaces) ==
  LET m == ListMatch(arg_string)
      html_tag == IF m.g1 = "ordered" THEN "ol" ELSE "ul"
      attr_str_html == AttrStrHtml(ParseAttributes(Strip(m.g2)), st.variables)
      s1 == AppendHtmlLine(st, "<" \o html_tag \o " " \o attr_str_html \o ">")
  IN
  IF m.ok THEN PushBlock(PushTag(s1, html_tag), line_indent_spaces, "list", html_tag)
  ELSE Raise(st, "ValueError", "Invalid list command syntax.")

\* the context test, on an empty block stack alone
NotDirectlyIn_EmptyOnly(st, cmd_type) == Len(st.block_stack) = 0

\* not block_stack or block_stack[-1][1] not in [cmd_type]
NotDirectlyIn(st, cmd_type) ==
  IF Len(st.block_stack) = 0 THEN TRUE ELSE Last(st.block_stack).cmd_type # cmd_type

\* item
DoItem(st, arg_string) ==
  LET m == QuotedMatch(arg_string)
      attr_str_html == AttrStrHtml(ParseAttributes(Strip(m.g2)), st.variables)
  IN
  IF NotDirectlyIn(st, "list")
  THEN Raise(st, "ValueError", "item command must be directly inside a list block.")
  ELSE IF m.ok
  THEN AppendHtmlLine(st, "<li " \o attr_str_html \o ">"
                            \o InterpolateVariables(m.g1, st.variables) \o "</li>")
  ELSE Raise(st, "ValueError", "Invalid item command syntax.")

\* card
DoCard(st, arg_string, line_indent_spaces) ==
  LET m == CardMatch(arg_string)
      attrs == ParseAttributes(Strip(m.g2))
      attr_str_html == AttrStrHtml(attrs, st.variables)
      card_class == ODictGet(attrs, "class")
      s1 == AppendHtmlLine(st, Strip("<div class=\"psu-card " \o card_class \o "\" "
                 \o Replace(attr_str_html, "class=\"" \o card_class \o "\"", "") \o ">"))
      s2 == AppendHtmlLine(s1, "    <div class=\"psu-card-header\">")
      s3 == AppendHtmlLine(s2, "        <h2>" \o InterpolateVariables(m.g1, st.variables)
                                 \o "</h2>")
      s4 == AppendHtmlLine(s3, "    </div>")
  IN
  IF m.ok THEN PushBlock(PushTag(s4, "div"), line_indent_spaces, "card", "")
  ELSE Raise(st, "ValueError", "Invalid card command syntax.")

\* card_body
DoCardBody(st, line_indent_spaces) ==
  IF NotDirectlyIn(st, "card")
  THEN Raise(st, "ValueError", "card_body must be directly inside a card block.")
  ELSE PushBlock(PushTag(AppendHtmlLine(st, "<div class=\"psu-card-body\">"), "div"),
                 line_indent_spaces, "card_body", "")

\* card_footer
DoCardFooter(st, line_indent_spaces) ==
  IF NotDirectlyIn(st, "card")
  THEN Raise(st, "ValueError", "card_footer must be directly inside a card block.")
  ELSE PushBlock(PushTag(AppendHtmlLine(st, "<div class=\"psu-card-footer\">"), "div"),
                 line_indent_spaces, "card_footer", "")

\* right.strip('"').lower() if right.startswith('"') and right.endswith('"')
\* else right.lower()
RightVal(right) ==
  IF StartsWith(right, "\"") /\ EndsWith(right, "\"")
  THEN Lower(StripChar(right, "\""))
  ELSE Lower(right)

\* the condition of an if: the forms are tried in the order of the source
ConditionResult(condition_expr, vars) ==
  LET eq == Find(condition_expr, "==", 1)
      ne == Find(condition_expr, "!=", 1)
      at == IF eq > 0 THEN eq ELSE ne
      left == Strip(SubSeq(condition_expr, 1, at - 1))
      right == Strip(From(condition_expr, at + 2))
      left_val == DictGet(vars, left, NoneV)
  IN
  IF eq > 0 THEN Lower(Str(left_val)) = RightVal(right)
  ELSE IF ne > 0 THEN Lower(Str(left_val)) # RightVal(right)
  ELSE IF condition_expr \in {"true", "false"} THEN Lower(condition_expr) = "true"
  ELSE Truthy(DictGet(vars, condition_expr, BoolV(FALSE)))

\* any(not x for x in stack[:-1])
AnyParentFalse(stack) == \E i \in 1..(Len(stack) - 1) : ~stack[i]

\* if, with the skip flag left as it is
DoIf_KeepsSkip(st, arg_string, line_indent_spaces) ==
  LET condition_result == ConditionResult(arg_string, st.variables)
      stack == Append(st.if_conditions_met_stack, condition_result)
  IN
  PushBlock([st EXCEPT !.if_conditions_met_stack = stack],
            line_indent_spaces, "if", "")

\* if
DoIf(st, arg_string, line_indent_spaces) ==
  LET condition_result == ConditionResult(arg_string, st.variables)
      stack == Append(st.if_conditions_met_stack, condition_result)
  IN
  PushBlock([st EXCEPT !.if_conditions_met_stack = stack,
                       !.skip_current_block = (~condition_result) \/ AnyParentFalse(stack)],
            line_indent_spaces, "if", "")

\* not block_stack or block_stack[-1][1] != 'if'
\* or line_indent_spaces != block_stack[-1][0]
ElseMisplaced(st, line_indent_spaces) ==
  IF Len(st.block_stack) = 0 THEN TRUE
  ELSE IF Last(st.block_stack).cmd_type # "if" THEN TRUE
  ELSE line_indent_spaces # Last(st.block_stack).indent

\* else
DoElse(st, line_indent_spaces) ==
  LET prev_if_result == Last(st.if_conditions_met_stack)
      current_else_result == ~prev_if_result
      stack == Append(Front(st.if_conditions_met_stack), current_else_result)
  IN
  IF ElseMisplaced(st, line_indent_spaces)
  THEN Raise(st, "ValueError",
             "else command must immediately follow an if block at the same indentation level.")
  ELSE IF Len(st.if_conditions_met_stack) = 0
  THEN Raise(st, "IndexError", "pop from empty list")
  ELSE [st EXCEPT !.if_conditions_met_stack = stack,
                  !.skip_current_block = (~current_else_result) \/ AnyParentFalse(stack)]

\* loop, with the skip flag left as it is
DoLoop_KeepsSkip(st, line_no, line_indent_spaces) ==
  LET s1 == PrintLine(st, "Warning: loop command on line " \o ToString(line_no)
                            \o " is a placeholder.")
      s2 == PrintLine(s1, "       Full loop functionality requires an AST-based interpreter.")
  IN PushBlock(s2, line_indent_spaces, "loop", "")

\* loop
DoLoop(st, line_no, line_indent_spaces) ==
  LET s1 == PrintLine(st, "Warning: loop command on line " \o ToString(line_no)
                            \o " is a placeholder.")
      s2 == PrintLine(s1, "       Full loop functionality requires an AST-based interpreter.")
  IN [PushBlock(s2, line_indent_spaces, "loop", "") EXCEPT !.skip_current_block = TRUE]

\* the unknown-command branch, raising as the handlers do
DoUnknown_Raises(st, line_no, trimmed_line) ==
  Raise(st, "ValueError", "Unknown command: '" \o trimmed_line \o "'")

\* the unknown-command branch
DoUnknown(st, line_no, trimmed_line) ==
  PrintLine(st, "Warning: Unknown command or malformed syntax on line "
                  \o ToString(line_no) \o ": '" \o trimmed_line \o "'")

\* the command words of the if/elif chain
Commands ==
  {"output_html", "set", "page", "meta_info", "section", "container", "heading",
   "paragraph", "image", "button", "link", "list", "item", "card", "card_body",
   "card_footer", "if", "else", "loop"}

\* sys.exit(1)
Exit(st) == [st EXCEPT !.pc = "exited", !.raised = "", !.message = ""]

\* the except clauses of the line, then current_line_index += 1
AfterHandler(st, line_no) ==
  IF st.raised = ""
  THEN [st EXCEPT !.current_line_index = @ + 1]
  ELSE IF st.raised = "ValueError"
  THEN Exit(PrintLine(st, "Error on line " \o ToString(line_no) \o ": " \o st.message))
  ELSE Exit(PrintLine(st, "Unhandled error on line " \o ToString(line_no) \o ": "
                            \o st.message))

\* len(line) - len(line.lstrip())
LineIndentSpaces(line) == Len(line) - Len(LStrip(line))

\* trimmed_line.startswith('..') or not trimmed_line
IsCommentOrBlank(line) ==
  IF Len(Strip(line)) = 0 THEN TRUE ELSE StartsWith(Strip(line), "..")

\* the command word of a line that is parsed: the word itself, "#unknown" for
\* a word outside the if/elif chain, "#malformed" where the command pattern
\* does not match, "#comment" for a comment or blank line
LineWord(line) ==
  LET t == LStrip(line)
      word == SubSeq(t, 1, WordLen(t))
  IN
  IF Len(t) = 0 THEN "#comment"
  ELSE IF StartsWith(t, "..") THEN "#comment"
  ELSE IF Len(word) = 0 THEN "#malformed"
  ELSE IF word \in Commands THEN word
  ELSE "#unknown"

\* ------------------------------------------------------------------------
\* The state
\* ------------------------------------------------------------------------

VARIABLES
  variables,                \* module level: the PSU variables
  html_output_buffer,       \* module level: the generated HTML lines
  output_filename,          \* module level: the output file name
  html_tag_stack,           \* module level: the open HTML tags
  lines,                    \* per invocation: the lines read from the script
  current_line_index,       \* per invocation: the index of the next line
  block_stack,              \* per invocation: the open blocks
  skip_current_block,       \* per invocation: the skip flag
  if_conditions_met_stack,  \* per invocation: the results of the open ifs
  pc,                       \* per invocation: where execute_psu_script stands
  stdout,                   \* what was printed
  files,                    \* the output files written, in order
  interp                    \* a call of interpolate_variables on its own

vars ==
  <<variables, html_output_buffer, output_filename, html_tag_stack, lines,
    current_line_index, block_stack, skip_current_block, if_conditions_met_stack,
    pc, stdout, files, interp>>

\* the invocations of execute_psu_script within the process
Runs == {1, 2, 3}

FilePath(r) == "script" \o ToString(r) \o ".psu"

\* the state an invocation r works on
View(r) ==
  [variables |-> variables,
   html_output_buffer |-> html_output_buffer,
   output_filename |-> output_filename,
   html_tag_stack |-> html_tag_stack,
   block_stack |-> block_stack[r],
   if_conditions_met_stack |-> if_conditions_met_stack[r],
   skip_current_block |-> skip_current_block[r],
   current_line_index |-> current_line_index[r],
   pc |-> pc[r],
   stdout |-> stdout,
   raised |-> "",
   message |-> ""]

\* the state an invocation r leaves
Commit(r, st) ==
  /\ variables' = st.variables
  /\ html_output_buffer' = st.html_output_buffer
  /\ output_filename' = st.output_filename
  /\ html_tag_stack' = st.html_tag_stack
  /\ block_stack' = [block_stack EXCEPT ![r] = st.block_stack]
  /\ if_conditions_met_stack' =
       [if_conditions_met_stack EXCEPT ![r] = st.if_conditions_met_stack]
  /\ skip_current_block' = [skip_current_block EXCEPT ![r] = st.skip_current_block]
  /\ current_line_index' = [current_line_index EXCEPT ![r] = st.current_line_index]
  /\ pc' = [pc EXCEPT ![r] = st.pc]
  /\ stdout' = st.stdout

NoCall == [text |-> "", returned |-> FALSE, result |-> ""]

\* the module as loaded: no invocation has started
Init ==
  /\ variables = EmptyDict
  /\ html_output_buffer = <<>>
  /\ output_filename = "index.html"
  /\ html_tag_stack = <<>>
  /\ lines = [r \in Runs |-> <<>>]
  /\ current_line_index = [r \in Runs |-> 0]
  /\ block_stack = [r \in Runs |-> <<>>]
  /\ skip_current_block = [r \in Runs |-> FALSE]
  /\ if_conditions_met_stack = [r \in Runs |-> <<>>]
  /\ pc = [r \in Runs |-> "idle"]
  /\ stdout = <<>>
  /\ files = <<>>
  /\ interp = NoCall

\* ------------------------------------------------------------------------
\* The steps of execute_psu_script
\* ------------------------------------------------------------------------

\* the call, with the open tags left as the last invocation left them
Invoke_KeepsTags(r, scripts) ==
  /\ pc[r] = "idle"
  /\ \E script \in scripts : lines' = [lines EXCEPT ![r] = script]
  /\ variables' = EmptyDict
  /\ html_output_buffer' = <<>>
  /\ output_filename' = "index.html"
  /\ pc' = [pc EXCEPT ![r] = "header"]
  /\ stdout' = Append(stdout, "--- Starting PSU Interpreter for: " \o FilePath(r) \o " ---")
  /\ UNCHANGED <<html_tag_stack, current_line_index, block_stack, skip_current_block,
                 if_conditions_met_stack, files, interp>>

\* the call, on one of the scripts: the module-level state is reset and the
\* script file is read
Invoke(r, scripts) ==
  /\ pc[r] = "idle"
  /\ \E script \in scripts : lines' = [lines EXCEPT ![r] = script]
  /\ variables' = EmptyDict
  /\ html_output_buffer' = <<>>
  /\ output_filename' = "index.html"
  /\ html_tag_stack' = <<>>
  /\ pc' = [pc EXCEPT ![r] = "header"]
  /\ stdout' = Append(stdout, "--- Starting PSU Interpreter for: " \o FilePath(r) \o " ---")
  /\ UNCHANGED <<current_line_index, block_stack, skip_current_block,
                 if_conditions_met_stack, files, interp>>

\* not lines or lines[0].strip() != 'psload'
PsloadMissing(ls) == IF Len(ls) = 0 THEN TRUE ELSE Strip(ls[1]) # "psload"

\* the psstart test, on the number of lines alone
PsstartMissing_LengthOnly(ls) == Len(ls) < 2

\* len(lines) < 2 or lines[1].strip() != 'psstart'
PsstartMissing(ls) == IF Len(ls) < 2 THEN TRUE ELSE Strip(ls[2]) # "psstart"

\* the psload and psstart check, then the locals of the line loop
HeaderCheck(st, r, ls) ==
  IF PsloadMissing(ls)
  THEN Exit(PrintLine(st, "Error: .psu script '" \o FilePath(r)
                            \o "' must start with 'psload' on the first line."))
  ELSE IF PsstartMissing(ls)
  THEN Exit(PrintLine(st, "Error: .psu script '" \o FilePath(r)
                            \o "' must have 'psstart' on the second line."))
  ELSE [PrintLine(st, "psload and psstart directives validated.")
          EXCEPT !.block_stack = <<>>,
                 !.skip_current_block = FALSE,
                 !.if_conditions_met_stack = <<>>,
                 !.current_line_index = 2,
                 !.pc = "loop"]

CheckHeader(r) ==
  /\ pc[r] = "header"
  /\ Commit(r, HeaderCheck(View(r), r, lines[r]))
  /\ UNCHANGED <<lines, files, interp>>

\* lines[current_line_index]
CurrentLine(r) == lines[r][current_line_index[r] + 1]

\* the line loop is at a line
AtLine(r) ==
  /\ pc[r] = "loop"
  /\ current_line_index[r] < Len(lines[r])

\* current_line_index + 1, the line number of the messages
LineNo(r) == current_line_index[r] + 1

\* the state as it is before the closing pass of the current line
Closed_NoPass(r) == View(r)

\* the state the closing pass of the current line leaves
Closed(r) == ClosePass(View(r), LineIndentSpaces(CurrentLine(r)))

\* arg_string of a line, after the colon check
ArgString(line) == StripColon(CommandMatch(Strip(line)).arg_string)

\* the line loop is at a line with this command word that the skip test lets
\* through.  (An exception of the closing pass would be raised outside the
\* try and end the process; no step is taken from there.)
Executes(r, word) ==
  /\ AtLine(r)
  /\ LineWord(CurrentLine(r)) = word
  /\ Closed(r).raised = ""
  /\ ~Closed(r).skip_current_block

\* the rest of the iteration: the except clauses and the index
Finish(r, st) ==
  /\ Commit(r, AfterHandler(st, LineNo(r)))
  /\ UNCHANGED <<lines, files, interp>>

\* a comment or blank line: nothing but the index moves
CommentLine(r) ==
  /\ AtLine(r)
  /\ LineWord(CurrentLine(r)) = "#comment"
  /\ Finish(r, View(r))

\* a skip check that comes after the syntax check of the command pattern
SkippedLine_ChecksSyntax(r) ==
  /\ AtLine(r)
  /\ LineWord(CurrentLine(r)) # "#comment"
  /\ Closed(r).raised = ""
  /\ Closed(r).skip_current_block
  /\ IF LineWord(CurrentLine(r)) = "#malformed"
     THEN Commit(r, Exit(PrintLine(Closed(r), "Error: Malformed line "
                                     \o ToString(LineNo(r)) \o ": '"
                                     \o Strip(CurrentLine(r)) \o "'")))
     ELSE Commit(r, AfterHandler(Closed(r), LineNo(r)))
  /\ UNCHANGED <<lines, files, interp>>

\* a line found under a true skip flag after its closing pass
SkippedLine(r) ==
  /\ AtLine(r)
  /\ LineWord(CurrentLine(r)) # "#comment"
  /\ Closed(r).raised = ""
  /\ Closed(r).skip_current_block
  /\ Finish(r, Closed(r))

\* a line the command pattern does not match ends the run
MalformedLine(r) ==
  /\ Executes(r, "#malformed")
  /\ Commit(r, Exit(PrintLine(Closed(r), "Error: Malformed line " \o ToString(LineNo(r))
                                           \o ": '" \o Strip(CurrentLine(r)) \o "'")))
  /\ UNCHANGED <<lines, files, interp>>

\* an executed output_html line
OutputHtml(r) ==
  /\ Executes(r, "output_html")
  /\ Finish(r, DoOutputHtml(Closed(r), ArgString(CurrentLine(r))))

\* an executed set line
Set(r) ==
  /\ Executes(r, "set")
  /\ Finish(r, DoSet(Closed(r), ArgString(CurrentLine(r))))

\* an executed page line
Page(r) ==
  /\ Executes(r, "page")
  /\ Finish(r, DoPage(Closed(r), ArgString(CurrentLine(r)), LineIndentSpaces(CurrentLine(r))))

\* an executed meta_info line
MetaInfo(r) ==
  /\ Executes(r, "meta_info")
  /\ Finish(r, DoMetaInfo(Closed(r), ArgString(CurrentLine(r))))

\* an executed section line
Section(r) ==
  /\ Executes(r, "section")
  /\ Finish(r, DoSection(Closed(r), ArgString(CurrentLine(r)), LineIndentSpaces(CurrentLine(r))))

\* an executed container line
Container(r) ==
  /\ Executes(r, "container")
  /\ Finish(r, DoContainer(Closed(r), ArgString(CurrentLine(r)), LineIndentSpaces(CurrentLine(r))))

\* an executed heading line
Heading(r) ==
  /\ Executes(r, "heading")
  /\ Finish(r, DoHeading(Closed(r), ArgString(CurrentLine(r))))

\* an executed paragraph line
Paragraph(r) ==
  /\ Executes(r, "paragraph")
  /\ Finish(r, DoParagraph(Closed(r), ArgString(CurrentLine(r))))

\* an executed image line
Image(r) ==
  /\ Executes(r, "image")
  /\ Finish(r, DoImage(Closed(r), ArgString(CurrentLine(r))))

\* an executed button line
Button(r) ==
  /\ Executes(r, "button")
  /\ Finish(r, DoButton(Closed(r), ArgString(CurrentLine(r))))

\* an executed link line
Link(r) ==
  /\ Executes(r, "link")
  /\ Finish(r, DoLink(Closed(r), ArgString(CurrentLine(r))))

\* an executed list line
List(r) ==
  /\ Executes(r, "list")
  /\ Finish(r, DoList(Closed(r), ArgString(CurrentLine(r)), LineIndentSpaces(CurrentLine(r))))

\* an executed item line
Item(r) ==
  /\ Executes(r, "item")
  /\ Finish(r, DoItem(Closed(r), ArgString(CurrentLine(r))))

\* an executed card line
Card(r) ==
  /\ Executes(r, "card")
  /\ Finish(r, DoCard(Closed(r), ArgString(CurrentLine(r)), LineIndentSpaces(CurrentLine(r))))

\* an executed card_body line
CardBody(r) ==
  /\ Executes(r, "card_body")
  /\ Finish(r, DoCardBody(Closed(r), LineIndentSpaces(CurrentLine(r))))

\* an executed card_footer line
CardFooter(r) ==
  /\ Executes(r, "card_footer")
  /\ Finish(r, DoCardFooter(Closed(r), LineIndentSpaces(CurrentLine(r))))

\* an executed if line
If(r) ==
  /\ Executes(r, "if")
  /\ Finish(r, DoIf(Closed(r), ArgString(CurrentLine(r)), LineIndentSpaces(CurrentLine(r))))

\* an executed else line
Else(r) ==
  /\ Executes(r, "else")
  /\ Finish(r, DoElse(Closed(r), LineIndentSpaces(CurrentLine(r))))

\* an executed loop line
Loop(r) ==
  /\ Executes(r, "loop")
  /\ Finish(r, DoLoop(Closed(r), LineNo(r), LineIndentSpaces(CurrentLine(r))))

\* a command word outside the if/elif chain
UnknownCommand(r) ==
  /\ Executes(r, "#unknown")
  /\ Finish(r, DoUnknown(Closed(r), LineNo(r), Strip(CurrentLine(r))))

\* the end of the line loop and the final cleanup
Cleanup(r) ==
  /\ pc[r] = "loop"
  /\ current_line_index[r] >= Len(lines[r])
  /\ Commit(r, [FinalCleanup(View(r)) EXCEPT !.pc = "write"])
  /\ UNCHANGED <<lines, files, interp>>

\* '\n'.join(html_output_buffer) is written to output_filename
WriteOutput(r) ==
  /\ pc[r] = "write"
  /\ files' = Append(files, [run |-> r, name |-> output_filename,
                             content |-> JoinWith(html_output_buffer, "\n")])
  /\ stdout' = Append(stdout, "--- Successfully generated HTML file: "
                                \o output_filename \o " ---")
  /\ pc' = [pc EXCEPT ![r] = "done"]
  /\ UNCHANGED <<variables, html_output_buffer, output_filename, html_tag_stack, lines,
                 current_line_index, block_stack, skip_current_block,
                 if_conditions_met_stack, interp>>

\* the output file cannot be opened: the message and sys.exit(1)
WriteFails(r) ==
  /\ pc[r] = "write"
  /\ stdout' = Append(stdout, "Error writing HTML output file: " \o output_filename)
  /\ pc' = [pc EXCEPT ![r] = "write_failed"]
  /\ UNCHANGED <<variables, html_output_buffer, output_filename, html_tag_stack, lines,
                 current_line_index, block_stack, skip_current_block,
                 if_conditions_met_stack, files, interp>>

RunStep(r) ==
  \/ CheckHeader(r)
  \/ CommentLine(r)
  \/ SkippedLine(r)
  \/ MalformedLine(r)
  \/ OutputHtml(r)
  \/ Set(r)
  \/ Page(r)
  \/ MetaInfo(r)
  \/ Section(r)
  \/ Container(r)
  \/ Heading(r)
  \/ Paragraph(r)
  \/ Image(r)
  \/ Button(r)
  \/ Link(r)
  \/ List(r)
  \/ Item(r)
  \/ Card(r)
  \/ CardBody(r)
  \/ CardFooter(r)
  \/ If(r)
  \/ Else(r)
  \/ Loop(r)
  \/ UnknownCommand(r)
  \/ Cleanup(r)
  \/ WriteOutput(r)
  \/ WriteFails(r)

\* ------------------------------------------------------------------------
\* The scripts the model runs
\* ------------------------------------------------------------------------

\* the longest generated script body, in lines
MaxLines == 3

\* all sequences over S of length at most n
SeqsUpTo(S, n) == UNION {[1..k -> S] : k \in 0..n}

Header == <<"psload", "psstart">>

\* lines about conditionals, at three indentation depths
CondLines ==
  {"if true:", "if false:", "    if true:", "    if false:",
   "else:", "    else:", "    loop 3:",
   "paragraph \"a\":", "    paragraph \"b\":", "        paragraph \"c\":",
   "    section \"s\":"}

\* lines about structural blocks, at three indentation depths
BlockLines ==
  {"page \"T\":", "    section \"s\":", "    list type=\"ordered\":",
   "        item \"i\":", "    card title=\"C\":", "        card_body:",
   "        card_footer:", "container class=\"k\":", "if false:",
   "    paragraph \"b\":", "frobnicate 1", ".. a comment"}

\* scripts of the documentation and scripts that reach every handler
ScenarioBodies ==
  {<<"set name = \"Bob\";", "page \"Hi ${name}\":", "    paragraph \"Hello ${name}\":">>,
   <<"if missing_var:", "    paragraph \"shown\":", "else:", "    paragraph \"hidden\":">>,
   <<"set b = true;", "if b:", "    paragraph \"shown\":", "else:",
     "    paragraph \"hidden\":">>,
   <<"set b = false;", "if b:", "    paragraph \"shown\":", "else:",
     "    paragraph \"hidden\":">>,
   <<"if false:", "    if true:", "        paragraph \"c\":", "    else:",
     "        item \"x\":", "paragraph \"a\":">>,
   <<"item \"x\":">>,
   <<"page \"T\":", "    item \"x\":">>,
   <<"page \"T\":", "    card_body:">>,
   <<"card_footer:">>,
   <<"set n = 2 + 3;", "paragraph \"${n}\":">>,
   <<"set n = 1 / 0;", "paragraph \"${n}\":">>,
   <<"set a = \"x\";", "set n = a + 1;", "set m = 2 +;", "set k = zz;",
     "set f = 1.50;", "set t = TRUE;", "paragraph \"${n} ${m} ${k} ${f} ${t} ${a}\":">>,
   <<"set n = 5">>,
   <<"output_html \"out.html\"", "output_html \"again.html\"",
     "page \"T\" stylesheet=\"s.css\", script=\"a.js\", favicon=\"f.ico\":",
     "    meta_info charset=\"utf-8\"",
     "    heading level=1 \"Title\" class=\"h\"",
     "    image \"a.png\" alt=\"A\"",
     "    button \"Go\" id=\"b\"",
     "    link \"here\" \"http://x\" target=\"_blank\"",
     "    section \"main\" class=\"c\" full_width=\"true\":",
     "        container id=\"box\":",
     "            list type=\"unordered\":",
     "                item \"one\":",
     "    card title=\"C\" class=\"k\":",
     "        card_body:",
     "            paragraph \"in\":",
     "        card_footer:",
     "            paragraph \"out\":",
     "paragraph \"after\":">>,
   <<"output_html out.html">>,
   <<"page T:">>,
   <<"section main:">>,
   <<"heading \"Title\"">>,
   <<"heading level=7 \"Title\"">>,
   <<"paragraph hello">>,
   <<"image a.png">>,
   <<"button Go">>,
   <<"link \"here\"">>,
   <<"list type=\"bullets\":">>,
   <<"page \"T\":", "    list type=\"ordered\":", "        item one">>,
   <<"card \"C\":">>,
   <<"\"hello\"">>,
   <<"if true:", "    loop 3:", "        paragraph \"c\":", "    paragraph \"b\":",
     "paragraph \"a\":">>,
   <<"", "   ", ".. note", "paragraph \"a\":">>}

\* script files whose first two lines are not the plain header
HeaderScripts ==
  {<<>>, <<"psload">>, <<"psstart", "psload">>, <<"PSLOAD", "psstart">>,
   <<"psload", "start">>, <<"psload", "", "psstart">>,
   <<"  psload ", "\tpsstart", "paragraph \"a\":">>,
   <<"psload", " psstart", "paragraph \"a\":">>,
   <<"psload x", "psstart", "paragraph \"a\":">>}

\* assignments that store one value of every kind a condition can look up
TruthSets ==
  { "set b = zz;", "set b = false;", "set b = \"false\";", "set b = 0;",
    "set b = \"\";", "set b = 0.0;", "set b = true;", "set b = \"x\";",
    "set b = 1;", "set FALSE = 1;", "set TRUE = 0;" }

\* conditions without a comparison: names and spellings of the literals
TruthConds == {"b", "missing", "true", "false", "TRUE", "True", "FALSE"}

\* one assignment, one conditional over it, and a body that shows the result
TruthBodies ==
  { <<s, "if " \o c \o ":", "    paragraph \"shown\":">> :
      s \in TruthSets, c \in TruthConds }

\* lines of every kind met while the rest of a block is being skipped
SkippedBodies ==
  { <<"if false:", "    \"hello\"", "    item \"x\":", "    set v = 1;",
      "    output_html \"z.html\"", "    if true:", "paragraph \"a\":">>,
    <<"section \"s\":", "    loop 2:", "        \"hello\"",
      "        output_html \"z.html\"", "paragraph \"a\":">> }

\* scripts that name the output file more than once
OutputBodies ==
  { <<"output_html \"a.html\"", "output_html \"b.html\"", "paragraph \"x\":">>,
    <<"output_html \"a.html\"", "output_html \"a.html\"">>,
    <<"output_html \"a.html\"", "if false:", "    output_html \"b.html\"">> }

Bodies ==
  SeqsUpTo(CondLines, MaxLines) \cup SeqsUpTo(BlockLines, MaxLines)
    \cup ScenarioBodies \cup TruthBodies \cup SkippedBodies \cup OutputBodies

Scripts == HeaderScripts \cup {Header \o body : body \in Bodies}

\* ------------------------------------------------------------------------
\* One invocation in the process
\* ------------------------------------------------------------------------

Next ==
  \/ Invoke(1, Scripts)
  \/ \E r \in Runs : RunStep(r)

Spec == Init /\ [][Next]_vars

\* ------------------------------------------------------------------------
\* Properties
\* ------------------------------------------------------------------------

\* the step is one of invocation r
StepOf(r) ==
  \/ pc'[r] # pc[r]
  \/ current_line_index'[r] # current_line_index[r]

\* the type of the innermost open frame, "" when no frame is open
TopType(stack) == IF Len(stack) = 0 THEN "" ELSE Last(stack).cmd_type

\* invocation r has written no output file
NoFileBy(r) == \A i \in 1..Len(files) : files[i].run # r

\* the line of invocation r that was processed last
PreviousLine(r) == lines[r][current_line_index[r]]

\* the tag an output line opens or closes: <<"open", tag>>, <<"close", tag>>
\* or <<"none", "">> for a line that is complete in itself
TagEvent(html_line) ==
  LET t == LStrip(html_line) IN
  CASE t = "<html>" -> <<"open", "html">>
    [] t = "<head>" -> <<"open", "head">>
    [] t = "<body>" -> <<"open", "body">>
    [] StartsWith(t, "<section ") -> <<"open", "section">>
    [] StartsWith(t, "<ol ") -> <<"open", "ol">>
    [] StartsWith(t, "<ul ") -> <<"open", "ul">>
    [] StartsWith(t, "<div ") -> <<"open", "div">>
    [] t \in {"</html>", "</head>", "</body>", "</section>", "</ol>", "</ul>", "</div>"} ->
         <<"close", SubSeq(t, 3, Len(t) - 1)>>
    [] OTHER -> <<"none", "">>

\* the output lines from i on close what `open` holds and what they open, in
\* LIFO order, and nothing else
RECURSIVE Balanced(_, _, _)
Balanced(buffer, i, open) ==
  IF i > Len(buffer) THEN Len(open) = 0
  ELSE
    LET e == TagEvent(buffer[i]) IN
    IF e[1] = "open" THEN Balanced(buffer, i + 1, Append(open, e[2]))
    ELSE IF e[1] = "close"
    THEN IF Len(open) > 0 /\ Last(open) = e[2]
         THEN Balanced(buffer, i + 1, Front(open))
         ELSE FALSE
    ELSE Balanced(buffer, i + 1, open)

\* C1: when a script has run to completion, every structural block it opened
\* has exactly one matching closing markup in the output buffer and the
\* closings are in LIFO order with the openings, whether the block was closed
\* by a dedenting line or by the closing pass at the end of the input.
C1_BlocksBalancedAtCompletion ==
  \A r \in Runs : pc[r] \in {"write", "done"} => Balanced(html_output_buffer, 1, <<>>)

\* a script of the form: header, set lines, an if, one deeper paragraph, an
\* else at the indentation of the if, one deeper paragraph
IfElseShape(ls) ==
  LET i == Len(ls) - 3 IN
  /\ Len(ls) >= 6
  /\ ~PsloadMissing(ls)
  /\ ~PsstartMissing(ls)
  /\ \A k \in 3..(i - 1) : LineWord(ls[k]) = "set"
  /\ LineWord(ls[i]) = "if"
  /\ LineWord(ls[i + 1]) = "paragraph"
  /\ LineWord(ls[i + 2]) = "else"
  /\ LineWord(ls[i + 3]) = "paragraph"
  /\ LineIndentSpaces(ls[i + 2]) = LineIndentSpaces(ls[i])
  /\ LineIndentSpaces(ls[i + 1]) > LineIndentSpaces(ls[i])
  /\ LineIndentSpaces(ls[i + 3]) > LineIndentSpaces(ls[i])

\* the paragraph such a script is to emit under the variables vs
ChosenBody(ls, vs) ==
  IF ConditionResult(ArgString(ls[Len(ls) - 3]), vs)
  THEN QuotedMatch(ArgString(ls[Len(ls) - 2])).g1
  ELSE QuotedMatch(ArgString(ls[Len(ls)])).g1

\* C2: a script with an if, an indented body, an else at the indentation of
\* the if and its own indented body runs to completion and emits the lines of
\* exactly one of the two bodies: the if body when the variable is true, the
\* else body when it is false or undefined.
C2_IfElseEmitsExactlyOneBody ==
  \A r \in Runs :
    IfElseShape(lines[r]) =>
      /\ pc[r] # "exited"
      /\ pc[r] \in {"write", "done"} =>
           /\ Len(html_output_buffer) = 1
           /\ EndsWith(html_output_buffer[1],
                       ">" \o ChosenBody(lines[r], variables) \o "</p>")

\* some open if has a false result
SomeIfFalse(st) ==
  \E i \in 1..Len(st.if_conditions_met_stack) : ~st.if_conditions_met_stack[i]

\* the step of invocation r has no effect but that of its closing pass and
\* the move to the next line
OnlyClosingPass(r) ==
  /\ html_output_buffer' = Closed(r).html_output_buffer
  /\ html_tag_stack' = Closed(r).html_tag_stack
  /\ block_stack'[r] = Closed(r).block_stack
  /\ if_conditions_met_stack'[r] = Closed(r).if_conditions_met_stack
  /\ skip_current_block'[r] = Closed(r).skip_current_block
  /\ variables' = variables
  /\ output_filename' = output_filename
  /\ files' = files
  /\ pc'[r] = "loop"
  /\ current_line_index'[r] = current_line_index[r] + 1

\* C3: a line that is not a comment and is met while, after its closing pass,
\* an if with a false result is open emits nothing and has no other effect,
\* at every nesting depth.
C3_NoEffectUnderFalseIf ==
  [][\A r \in Runs :
       (/\ AtLine(r)
        /\ StepOf(r)
        /\ LineWord(CurrentLine(r)) # "#comment"
        /\ SomeIfFalse(Closed(r)))
       => OnlyClosingPass(r)]_vars

\* reached: under an open false if, an inner if line and a line of its body
\* have been passed over and nothing was emitted
C3_Witness ==
  \E r \in Runs :
    /\ pc[r] = "loop"
    /\ current_line_index[r] >= 5
    /\ SomeIfFalse(View(r))
    /\ Len(block_stack[r]) = 1
    /\ LineWord(lines[r][current_line_index[r] - 1]) = "if"
    /\ LineIndentSpaces(lines[r][current_line_index[r] - 1]) > block_stack[r][1].indent
    /\ LineIndentSpaces(PreviousLine(r))
         > LineIndentSpaces(lines[r][current_line_index[r] - 1])
    /\ html_output_buffer = <<>>

\* the executed line of invocation r violates the context its command needs
ContextViolation(r) ==
  \/ /\ Executes(r, "item")
     /\ TopType(Closed(r).block_stack) # "list"
  \/ /\ Executes(r, "card_body")
     /\ TopType(Closed(r).block_stack) # "card"
  \/ /\ Executes(r, "card_footer")
     /\ TopType(Closed(r).block_stack) # "card"
  \/ /\ Executes(r, "else")
     /\ ~(/\ TopType(Closed(r).block_stack) = "if"
          /\ Last(Closed(r).block_stack).indent = LineIndentSpaces(CurrentLine(r)))

\* C4: an executed item whose innermost open frame after the closing pass is
\* not a list, an executed card_body or card_footer whose innermost open frame
\* is not a card, and an executed else that does not follow an if frame at its
\* indentation abort the run at that line with its 1-based line number; no
\* later line is processed and no output file is written.
C4_ContextViolationAborts ==
  /\ [][\A r \in Runs :
          (ContextViolation(r) /\ StepOf(r)) =>
            /\ pc'[r] = "exited"
            /\ current_line_index'[r] = current_line_index[r]
            /\ StartsWith(Last(stdout'),
                          "Error on line " \o ToString(current_line_index[r] + 1) \o ": ")
            /\ files' = files]_vars
  /\ [][\A r \in Runs :
          pc[r] = "exited" =>
            /\ pc'[r] = "exited"
            /\ current_line_index'[r] = current_line_index[r]
            /\ files' = files]_vars

\* reached: a run aborted at an item line and wrote no file
C4_Witness ==
  \E r \in Runs :
    /\ pc[r] = "exited"
    /\ current_line_index[r] >= 2
    /\ LineWord(CurrentLine(r)) = "item"
    /\ StartsWith(Last(stdout), "Error on line "
                                  \o ToString(current_line_index[r] + 1) \o ": item")
    /\ NoFileBy(r)

\* the executed line of invocation r is a set whose expression is no string,
\* boolean or number literal
SetOfExpression(r) ==
  LET m == SetMatch(ArgString(CurrentLine(r)))
      value_expr == Strip(m.g2)
  IN
  /\ Executes(r, "set")
  /\ m.ok
  /\ ~(StartsWith(value_expr, "\"") /\ EndsWith(value_expr, "\""))
  /\ Lower(value_expr) \notin {"true", "false"}
  /\ ~NumberMatch(value_expr)

\* C5: for an executed set whose expression is no string, boolean or number
\* literal, whatever way the evaluation of the expression fails, the variable
\* becomes Undefined, a warning is issued and processing continues with the
\* next line.
C5_FailedSetNeverAborts ==
  [][\A r \in Runs :
       LET m == SetMatch(ArgString(CurrentLine(r))) IN
       (/\ SetOfExpression(r)
        /\ StepOf(r)
        /\ EvalExpr(Strip(m.g2), variables).exc # "")
       =>
        /\ pc'[r] = "loop"
        /\ current_line_index'[r] = current_line_index[r] + 1
        /\ m.g1 \in DOMAIN variables'
        /\ variables'[m.g1] = NoneV
        /\ StartsWith(Last(stdout'), "Warning: ")]_vars

\* C6: an executed line whose command word is none of the fixed commands is
\* a warning only: the run continues with the next line and, apart from the
\* closing pass of the line, the variable store, block stack,
\* conditional-result stack, skip flag, open-tag stack, output buffer and
\* output file name are unchanged.
C6_UnknownCommandChangesNothing ==
  [][\A r \in Runs :
       (Executes(r, "#unknown") /\ StepOf(r)) =>
         /\ OnlyClosingPass(r)
         /\ Len(stdout') = Len(stdout) + 1
         /\ StartsWith(Last(stdout'), "Warning: Unknown command")]_vars

\* reached: an unknown command was executed and the run goes on
C6_Witness ==
  \E r \in Runs :
    /\ pc[r] = "loop"
    /\ current_line_index[r] >= 3
    /\ LineWord(PreviousLine(r)) = "#unknown"
    /\ StartsWith(Last(stdout), "Warning: Unknown command")

BobScript ==
  <<"psload", "psstart", "set name = \"Bob\";", "page \"Hi ${name}\":",
    "    paragraph \"Hello ${name}\":">>

\* some line of the text, without its indentation, is `wanted`
HasLine(buffer, wanted) == \E i \in 1..Len(buffer) : LStrip(buffer[i]) = wanted

\* C7: the script psload, psstart, set name = "Bob";, page "Hi ${name}":,
\* indented paragraph "Hello ${name}": runs to completion, and its output is
\* an html document whose title element is <title>Hi Bob</title> and which
\* contains <p>Hello Bob</p>.
C7_BobScenario ==
  \A r \in Runs :
    lines[r] = BobScript =>
      /\ pc[r] # "exited"
      /\ pc[r] \in {"write", "done"} =>
           /\ HasLine(html_output_buffer, "<html>")
           /\ HasLine(html_output_buffer, "<title>Hi Bob</title>")
           /\ \E i \in 1..Len(html_output_buffer) :
                Contains(html_output_buffer[i], "<p>Hello Bob</p>")

\* the header, stated on the two lines as they are
HeaderExact(ls) ==
  /\ Len(ls) >= 2
  /\ ls[1] = "psload"
  /\ ls[2] = "psstart"

\* the same, with the whitespace around each of the two lines removed
HeaderStripped(ls) ==
  /\ Len(ls) >= 2
  /\ Strip(ls[1]) = "psload"
  /\ Strip(ls[2]) = "psstart"

\* invocation r was aborted before any command line was processed
AbortedAtHeader(r) ==
  /\ pc[r] = "exited"
  /\ current_line_index[r] = 0
  /\ html_output_buffer = <<>>
  /\ variables = EmptyDict
  /\ NoFileBy(r)

\* C9, as stated: once the header check is done, if line 1 is not exactly
\* psload or line 2 is not exactly psstart the run is aborted before any
\* command line is processed and no output file is written; otherwise
\* processing has started at line 3.
C9_ExactHeaderOrAbort ==
  \A r \in Runs :
    pc[r] \notin {"idle", "header"} =>
      IF HeaderExact(lines[r]) THEN current_line_index[r] >= 2 ELSE AbortedAtHeader(r)

\* C9, amended: once the header check is done, if line 1 without the
\* whitespace around it is not psload or line 2 without the whitespace
\* around it is not psstart, the run is aborted before any command line is
\* processed and no output file is written, now or later; otherwise command
\* processing starts at line 3.
C9_StrippedHeaderOrAbort ==
  /\ [](\A r \in Runs :
          pc[r] \notin {"idle", "header"} =>
            IF HeaderStripped(lines[r])
            THEN current_line_index[r] >= 2
            ELSE AbortedAtHeader(r))
  /\ [][\A r \in Runs :
          (pc[r] = "header" /\ StepOf(r) /\ HeaderStripped(lines[r])) =>
            /\ pc'[r] = "loop"
            /\ current_line_index'[r] = 2
            /\ html_output_buffer' = <<>>]_vars

\* reached: a script whose second line is not psstart was aborted at the
\* header, a script with whitespace around its header lines was not
C9_Witness ==
  \E r \in Runs :
    /\ AbortedAtHeader(r)
    /\ Len(lines[r]) >= 2
    /\ Strip(lines[r][1]) = "psload"
    /\ Strip(lines[r][2]) # "psstart"
    /\ StartsWith(Last(stdout), "Error: .psu script")

\* ------------------------------------------------------------------------
\* interpolate_variables on its own
\* ------------------------------------------------------------------------

\* the longest text, in pieces
MaxPieces == 3

\* what the texts are made of
Pieces == {"${a}", "${b}", "${a b}", "${}", "$", "{b}"}

RECURSIVE Concat(_)
Concat(seq) == IF Len(seq) = 0 THEN "" ELSE Head(seq) \o Concat(Tail(seq))

Texts == {Concat(seq) : seq \in SeqsUpTo(Pieces, MaxPieces)}

\* the variable stores of the calls
Stores ==
  {EmptyDict,
   DictSet(EmptyDict, "b", StrV("x")),
   DictSet(EmptyDict, "b", IntV(7)),
   DictSet(DictSet(EmptyDict, "a", BoolV(TRUE)), "b", StrV("${a}"))}

InitInterp ==
  /\ variables \in Stores
  /\ html_output_buffer = <<>>
  /\ output_filename = "index.html"
  /\ html_tag_stack = <<>>
  /\ lines = [r \in Runs |-> <<>>]
  /\ current_line_index = [r \in Runs |-> 0]
  /\ block_stack = [r \in Runs |-> <<>>]
  /\ skip_current_block = [r \in Runs |-> FALSE]
  /\ if_conditions_met_stack = [r \in Runs |-> <<>>]
  /\ pc = [r \in Runs |-> "idle"]
  /\ stdout = <<>>
  /\ files = <<>>
  /\ interp \in {[text |-> t, returned |-> FALSE, result |-> ""] : t \in Texts}

\* interpolate_variables(text) returns
Interpolate ==
  /\ ~interp.returned
  /\ interp' = [interp EXCEPT !.returned = TRUE,
                              !.result = InterpolateVariables(interp.text, variables)]
  /\ UNCHANGED <<variables, html_output_buffer, output_filename, html_tag_stack, lines,
                 current_line_index, block_stack, skip_current_block,
                 if_conditions_met_stack, pc, stdout, files>>

\* interpolate_variables is called on the text it returned
InterpolateAgain ==
  /\ interp.returned
  /\ interp.result # interp.text
  /\ interp' = [text |-> interp.result, returned |-> FALSE, result |-> ""]
  /\ UNCHANGED <<variables, html_output_buffer, output_filename, html_tag_stack, lines,
                 current_line_index, block_stack, skip_current_block,
                 if_conditions_met_stack, pc, stdout, files>>

NextInterp == Interpolate \/ InterpolateAgain

SpecInterp == InitInterp /\ [][NextInterp]_vars

\* text[i..j] is an occurrence ${x}: "${", one or more word characters, "}"
IsOccurrence(text, i, j) ==
  /\ j >= i + 3
  /\ j <= Len(text)
  /\ SubSeq(text, i, i + 1) = "${"
  /\ CharAt(text, j) = "}"
  /\ \A k \in (i + 2)..(j - 1) : IsWord(CharAt(text, k))

\* the occurrences of a text, as <<first, last>>
Occurrences(text) ==
  {ij \in (1..Len(text)) \X (1..Len(text)) : IsOccurrence(text, ij[1], ij[2])}

\* what position i of the text contributes to the interpolated text: the
\* replacement where an occurrence begins, nothing inside an occurrence, the
\* character itself elsewhere
Contribution(text, occ, i, vs) ==
  IF \E ij \in occ : ij[1] = i
  THEN LET ij == CHOOSE ij \in occ : ij[1] = i
           x == SubSeq(text, i + 2, ij[2] - 1)
       IN IF x \in DOMAIN vs THEN Str(vs[x]) ELSE "UNDEFINED_VAR_" \o x
  ELSE IF \E ij \in occ : ij[1] < i /\ i <= ij[2]
  THEN ""
  ELSE CharAt(text, i)

\* the text with each occurrence replaced
Expected(text, vs) ==
  LET occ == Occurrences(text) IN
  Concat([i \in 1..Len(text) |-> Contribution(text, occ, i, vs)])

\* C8: a call of interpolate_variables returns for every text and store, the
\* store is as before, each ${x} occurrence is replaced by the stringified
\* stored value of x or by exactly UNDEFINED_VAR_x when x was never set, and
\* a text with no occurrence is returned unchanged.
C8_InterpolationReplacesOccurrences ==
  /\ [](interp.returned =>
          /\ interp.result = Expected(interp.text, variables)
          /\ (Occurrences(interp.text) = {} => interp.result = interp.text))
  /\ [][(~interp.returned) => interp'.returned]_vars
  /\ [][variables' = variables]_vars

\* reached: a text with an occurrence of a variable never set and one of a
\* variable that is set has been interpolated
C8_Witness ==
  /\ interp.returned
  /\ Contains(interp.text, "${a}")
  /\ Contains(interp.text, "${b}")
  /\ "a" \notin DOMAIN variables
  /\ "b" \in DOMAIN variables
  /\ Contains(interp.result, "UNDEFINED_VAR_a")
  /\ Contains(interp.result, Str(variables["b"]))

\* ------------------------------------------------------------------------
\* Two invocations in one process
\* ------------------------------------------------------------------------

\* script bodies of one or two lines that reach every handler
ConcBodies1 ==
  {<<"output_html \"out.html\"">>, <<"set name = \"Bob\";">>, <<"page \"T\":">>,
   <<"meta_info charset=\"utf-8\"">>, <<"section \"main\":">>,
   <<"container id=\"box\":">>, <<"heading level=1 \"Title\"">>,
   <<"paragraph \"a\":">>, <<"image \"a.png\"">>, <<"button \"Go\"">>,
   <<"link \"here\" \"http://x\"">>,
   <<"list type=\"ordered\":", "    item \"i\":">>,
   <<"card title=\"C\":", "    card_body:">>,
   <<"card title=\"C\":", "    card_footer:">>,
   <<"if false:", "    paragraph \"b\":">>,
   <<"else:">>, <<"loop 3:">>, <<"frobnicate 1">>, <<"\"hello\"">>,
   <<".. a comment">>}

ConcBodies2 ==
  {<<"paragraph \"a\":">>, <<"set name = \"Eve\";", "paragraph \"${name}\":">>}

ConcScripts1 == {Header \o body : body \in ConcBodies1}

ConcScripts2 == {Header \o body : body \in ConcBodies2}

\* two calls of execute_psu_script from two threads of one process; the
\* threads are switched between script lines (threads may also be switched
\* within a line, which adds interleavings and removes none)
NextConc ==
  \/ Invoke(1, ConcScripts1)
  \/ Invoke(2, ConcScripts2)
  \/ \E r \in Runs : RunStep(r)

SpecConc == Init /\ [][NextConc]_vars

\* invocation r is between its call and its return
Active(r) == pc[r] \in {"header", "loop", "write"}

\* C10: when two invocations are interleaved, the variable store, open-tag
\* stack, output buffer and output file name seen by one invocation are not
\* changed by a step of the other.
C10_OtherRunLeavesStateAlone ==
  [][\A r, s \in Runs :
       (r # s /\ Active(r) /\ StepOf(s) /\ ~StepOf(r)) =>
         /\ variables' = variables
         /\ html_tag_stack' = html_tag_stack
         /\ html_output_buffer' = html_output_buffer
         /\ output_filename' = output_filename]_vars

\* ------------------------------------------------------------------------
\* Invocations one after the other in one process
\* ------------------------------------------------------------------------

\* the bodies of the first and the third script
SeqBodies == ConcBodies1 \cup {<<"paragraph \"Hi ${name}\":">>}

\* bodies that leave variables, an output file name and open tags behind
LeavingBodies ==
  {<<"set name = \"Eve\";", "output_html \"other.html\"", "page \"T\":">>,
   <<"set name = \"Eve\";", "item \"x\":">>,
   <<"paragraph \"a\":">>}

SeqScripts == {Header \o body : body \in SeqBodies}

LeavingScripts == {Header \o body : body \in LeavingBodies}

\* execute_psu_script has returned, or has left by sys.exit (SystemExit,
\* which the caller may catch)
Ended(r) == pc[r] \in {"done", "exited", "write_failed"}

\* three calls of execute_psu_script, each after the one before has ended
NextSeq ==
  \/ Invoke(1, SeqScripts)
  \/ Ended(1) /\ Invoke(2, LeavingScripts)
  \/ Ended(2) /\ Invoke(3, SeqScripts)
  \/ \E r \in Runs : RunStep(r)

SpecSeq == Init /\ [][NextSeq]_vars

\* the module-level state as a fresh process has it
GlobalsFresh ==
  /\ variables = EmptyDict
  /\ html_output_buffer = <<>>
  /\ output_filename = "index.html"
  /\ html_tag_stack = <<>>

\* C11: every invocation starts its first script line with an empty variable
\* store, block stack, conditional-result stack, open-tag stack and output
\* buffer, the skip flag false and the output file name index.html, and what
\* an invocation writes for a script is what the first invocation of the
\* process writes for that script, whichever scripts were run before it.
C11_EveryRunStartsFresh ==
  /\ [](\A r \in Runs :
          (pc[r] = "header" \/ (pc[r] = "loop" /\ current_line_index[r] = 2)) =>
            GlobalsFresh)
  /\ [](\A r \in Runs :
          (pc[r] = "loop" /\ current_line_index[r] = 2) =>
            /\ block_stack[r] = <<>>
            /\ if_conditions_met_stack[r] = <<>>
            /\ ~skip_current_block[r])
  /\ [](\A i, j \in 1..Len(files) :
          lines[files[i].run] = lines[files[j].run] =>
            /\ files[i].name = files[j].name
            /\ files[i].content = files[j].content)
  /\ [](\A r \in Runs :
          (Ended(r) /\ lines[r] = lines[1] /\ Ended(1)) =>
            (NoFileBy(r) <=> NoFileBy(1)) \/ pc[r] = "write_failed" \/ pc[1] = "write_failed")

\* reached: the third invocation has written, for the script of the first,
\* the text the first wrote, after an invocation that left a variable, an
\* output file name and open tags behind
C11_Witness ==
  /\ pc[3] = "done"
  /\ lines[3] = lines[1]
  /\ Contains(JoinWith(lines[3], "\n"), "${name}")
  /\ Contains(JoinWith(lines[2], "\n"), "page")
  /\ Len(files) = 3
  /\ files[2].name = "other.html"
  /\ files[3].name = "index.html"
  /\ files[3].content = files[1].content
  /\ Contains(files[3].content, "UNDEFINED_VAR_name")

\* seq is what longer begins with
IsPrefix(seq, longer) ==
  /\ Len(seq) <= Len(longer)
  /\ SubSeq(longer, 1, Len(seq)) = seq

\* the number of files invocation r has written
FilesBy(r) == Cardinality({i \in 1..Len(files) : files[i].run = r})

\* C12: the output file is written at most once per run, only when every
\* script line has been processed and the final cleanup has emptied the block
\* stack, and its content is the lines of the output buffer joined by
\* newline; every step leaves the output buffer as it was or extends it at
\* its end; a run that was aborted has written no file.
C12_WrittenOnceAfterProcessing ==
  /\ [](\A r \in Runs :
          /\ FilesBy(r) <= 1
          /\ pc[r] \in {"exited", "write_failed"} => NoFileBy(r)
          /\ pc[r] # "done" => NoFileBy(r))
  /\ [][IsPrefix(html_output_buffer, html_output_buffer')]_vars
  /\ [][files' # files =>
          \E r \in Runs :
            /\ pc[r] = "write"
            /\ pc'[r] = "done"
            /\ current_line_index[r] >= Len(lines[r])
            /\ block_stack[r] = <<>>
            /\ html_output_buffer' = html_output_buffer
            /\ files' = Append(files, [run |-> r, name |-> output_filename,
                                       content |-> JoinWith(html_output_buffer, "\n")])]_vars

\* reached: a run has written its one file, of several lines, after lines
\* emitted by commands and by the final cleanup
C12_Witness ==
  \E r \in Runs :
    /\ pc[r] = "done"
    /\ FilesBy(r) = 1
    /\ Len(html_output_buffer) >= 3
    /\ LStrip(Last(html_output_buffer)) = "</section>"
    /\ LineWord(Last(lines[r])) # "#comment"
    /\ LineIndentSpaces(Last(lines[r])) > 0
    /\ files[Len(files)].content = JoinWith(html_output_buffer, "\n")

\* the line loop of invocation r is at a comment line (one that begins with
\* ".."; the indentation of such a line does not depend on its terminator)
AtCommentLine(r) ==
  /\ AtLine(r)
  /\ StartsWith(Strip(CurrentLine(r)), "..")

\* C13: a comment line is not parsed as a command but is subject to the
\* block-closure check: where its indentation is less than or equal to the
\* recorded indentation of the top frame, the step over it pops the frames a
\* command line at that indentation would pop and appends their closing
\* markup.
C13_CommentLineClosesBlocks ==
  [][\A r \in Runs :
       (/\ AtCommentLine(r)
        /\ StepOf(r)
        /\ Len(block_stack[r]) > 0
        /\ LineIndentSpaces(CurrentLine(r)) <= Last(block_stack[r]).indent)
       =>
        /\ block_stack'[r] = Closed(r).block_stack
        /\ html_output_buffer' = Closed(r).html_output_buffer
        /\ html_tag_stack' = Closed(r).html_tag_stack
        /\ Len(block_stack'[r]) < Len(block_stack[r])]_vars

\* a Loop frame is open
SomeLoopOpen(stack) == \E i \in 1..Len(stack) : stack[i].cmd_type = "loop"

\* C14: an executed loop line is a warning only and pushes a Loop frame; a
\* line met while, after its closing pass, a Loop frame is still open (a line
\* of the loop's body) emits no output, sets no variable, pushes no frame and
\* raises no error.
C14_LoopBodyNeverExecuted ==
  /\ [][\A r \in Runs :
          (Executes(r, "loop") /\ StepOf(r)) =>
            /\ pc'[r] = "loop"
            /\ current_line_index'[r] = current_line_index[r] + 1
            /\ Len(block_stack'[r]) = Len(Closed(r).block_stack) + 1
            /\ Last(block_stack'[r]).cmd_type = "loop"
            /\ Last(block_stack'[r]).indent = LineIndentSpaces(CurrentLine(r))
            /\ Front(block_stack'[r]) = Closed(r).block_stack
            /\ html_output_buffer' = Closed(r).html_output_buffer
            /\ variables' = variables
            /\ StartsWith(stdout'[Len(stdout') - 1], "Warning: loop command on line "
                            \o ToString(current_line_index[r] + 1))]_vars
  /\ [][\A r \in Runs :
          (/\ AtLine(r)
           /\ StepOf(r)
           /\ LineWord(CurrentLine(r)) # "#comment"
           /\ SomeLoopOpen(Closed(r).block_stack))
          => OnlyClosingPass(r)]_vars
  /\ [][\A r \in Runs :
          (/\ AtLine(r)
           /\ StepOf(r)
           /\ LineWord(CurrentLine(r)) = "#comment"
           /\ SomeLoopOpen(block_stack[r]))
          =>
           /\ pc'[r] = "loop"
           /\ html_output_buffer' = html_output_buffer
           /\ variables' = variables
           /\ block_stack'[r] = block_stack[r]]_vars

\* reached: a paragraph line of the body of a loop has been passed over, the
\* Loop frame is still open and nothing was emitted
C14_Witness ==
  \E r \in Runs :
    /\ pc[r] = "loop"
    /\ current_line_index[r] >= 4
    /\ TopType(block_stack[r]) = "loop"
    /\ LineWord(lines[r][current_line_index[r] - 1]) = "loop"
    /\ LineWord(PreviousLine(r)) = "paragraph"
    /\ LineIndentSpaces(PreviousLine(r)) > Last(block_stack[r]).indent
    /\ html_output_buffer = <<>>
    /\ StartsWith(stdout[Len(stdout) - 1], "Warning: loop command on line")

\* C15: suppression by a loop ends with the loop's body: a line that is not
\* a comment and is met when, after its closing pass, no Loop frame and no If
\* frame with a false result is open passes the skip test and is executed.
C15_NoSkipOutsideLoopBody ==
  \A r \in Runs :
    (/\ AtLine(r)
     /\ LineWord(CurrentLine(r)) # "#comment"
     /\ Closed(r).raised = ""
     /\ ~SomeLoopOpen(Closed(r).block_stack)
     /\ ~SomeIfFalse(Closed(r)))
    => ~Closed(r).skip_current_block

\* the recorded indentations do not decrease from bottom to top
IndentOrdered(stack) ==
  \A i \in 1..(Len(stack) - 1) : stack[i].indent <= stack[i + 1].indent

\* `after` is `before` with frames removed from the top and then at most one
\* frame pushed
TopOnly(before, after) ==
  \E k \in 0..Len(before) :
    /\ k <= Len(after)
    /\ Len(after) <= k + 1
    /\ SubSeq(after, 1, k) = SubSeq(before, 1, k)

\* C16: in every reachable state the frames of the block stack are ordered by
\* non-decreasing recorded indentation from bottom to top, and every step
\* removes frames from the top only.
C16_BlockStackOrdered ==
  /\ [](\A r \in Runs : IndentOrdered(block_stack[r]))
  /\ [][\A r \in Runs : TopOnly(block_stack[r], block_stack'[r])]_vars

\* reached: three or more frames are open, each deeper than the one below,
\* after a block was closed by a dedenting line
C16_Witness ==
  \E r \in Runs :
    /\ pc[r] = "loop"
    /\ Len(block_stack[r]) >= 3
    /\ \A i \in 1..(Len(block_stack[r]) - 1) :
         block_stack[r][i].indent < block_stack[r][i + 1].indent
    /\ HasLine(html_output_buffer, "</section>")

\* the number of If frames on a block stack
IfFrames(stack) == Cardinality({i \in 1..Len(stack) : stack[i].cmd_type = "if"})

\* C17: in every reachable state of a run the conditional-result stack is as
\* long as there are If frames on the block stack (so that with every If
\* frame popped, by a dedenting line or by the final cleanup, exactly one
\* conditional-result entry is popped).
C17_ResultsMatchIfFrames ==
  \A r \in Runs : Len(if_conditions_met_stack[r]) = IfFrames(block_stack[r])

\* the skip flag of st is true exactly if some open if has a false result
SkipConsistent(st) == st.skip_current_block <=> SomeIfFalse(st)

\* after every pop of an If frame in the closing pass of a line of this
\* indentation, begun in st, the skip flag is consistent
RECURSIVE PopsConsistent(_, _)
PopsConsistent(st, line_indent_spaces) ==
  IF /\ st.raised = ""
     /\ Len(st.block_stack) > 0
     /\ line_indent_spaces <= Last(st.block_stack).indent
  THEN /\ Last(st.block_stack).cmd_type = "if" => SkipConsistent(CloseOne(st))
       /\ PopsConsistent(CloseOne(st), line_indent_spaces)
  ELSE TRUE

\* C18: immediately after every executed if or else and immediately after
\* every pop of an If frame by a dedenting line, the skip flag is true if and
\* only if some entry remaining on the conditional-result stack is false
\* (false when no If frame remains open).
C18_SkipMatchesResults ==
  /\ [](\A r \in Runs :
          (AtLine(r) /\ LineWord(CurrentLine(r)) # "#comment") =>
            PopsConsistent(View(r), LineIndentSpaces(CurrentLine(r))))
  /\ [][\A r \in Runs :
          ((Executes(r, "if") \/ Executes(r, "else")) /\ StepOf(r)) =>
            (skip_current_block'[r] <=>
               \E i \in 1..Len(if_conditions_met_stack'[r]) :
                 ~if_conditions_met_stack'[r][i])]_vars

\* reached: the line after the body of an inner if with a false result has
\* popped that If frame, an outer if with a true result remains open, and the
\* line was executed
C18_Witness ==
  \E r \in Runs :
    /\ pc[r] = "loop"
    /\ current_line_index[r] >= 5
    /\ LineWord(lines[r][current_line_index[r] - 2]) = "if"
    /\ LineWord(lines[r][current_line_index[r] - 1]) = "if"
    /\ LineIndentSpaces(lines[r][current_line_index[r] - 1])
         > LineIndentSpaces(lines[r][current_line_index[r] - 2])
    /\ LineIndentSpaces(PreviousLine(r))
         = LineIndentSpaces(lines[r][current_line_index[r] - 1])
    /\ LineWord(PreviousLine(r)) = "paragraph"
    /\ if_conditions_met_stack[r] = <<TRUE>>
    /\ ~skip_current_block[r]
    /\ Len(html_output_buffer) = 1

\* the frames of a stack whose recorded indentation is below that of a line
KeptFrames(stack, line_indent_spaces) ==
  SelectSeq(stack, LAMBDA f : f.indent < line_indent_spaces)

\* the other frames, the top one first
PoppedFrames(stack, line_indent_spaces) ==
  LET n == Len(stack) - Len(KeptFrames(stack, line_indent_spaces)) IN
  [i \in 1..n |-> stack[Len(stack) + 1 - i]]

\* the closing markup of a frame, without indentation
ClosingTags(f) ==
  CASE f.cmd_type = "page" -> <<"</body>", "</html>">>
    [] f.cmd_type \in {"section", "container", "list"} -> <<"</" \o f.html_tag \o ">">>
    [] f.cmd_type \in {"card", "card_body", "card_footer"} -> <<"</div>">>
    [] OTHER -> <<>>

RECURSIVE ClosingMarkup(_)
ClosingMarkup(frames) ==
  IF Len(frames) = 0 THEN <<>>
  ELSE ClosingTags(Head(frames)) \o ClosingMarkup(Tail(frames))

\* the lines without their indentation
Unindented(buffer) == [i \in 1..Len(buffer) |-> LStrip(buffer[i])]

\* the skip flag a line of this indentation is to be judged by: that of the
\* last If frame its closing pass pops, the flag as it is when it pops none
SkipAfterClosing(r, line_indent_spaces) ==
  LET popped == PoppedFrames(block_stack[r], line_indent_spaces)
      kept == KeptFrames(block_stack[r], line_indent_spaces)
      left == SubSeq(if_conditions_met_stack[r], 1, IfFrames(kept))
  IN IF \E i \in 1..Len(popped) : popped[i].cmd_type = "if"
     THEN IF Len(left) = 0 THEN FALSE ELSE ~Last(left)
     ELSE skip_current_block[r]

\* C19: a step over a line that is neither a comment nor blank pops every
\* frame whose recorded indentation is greater than or equal to the line's
\* and appends their closing markup, top frame first, before anything the
\* line itself emits; the line is skipped or dispatched by the skip flag as
\* it is after those pops, and its context is the frame then on top.
C19_ClosingPrecedesDispatch ==
  [][\A r \in Runs :
       (AtLine(r) /\ StepOf(r) /\ LineWord(CurrentLine(r)) # "#comment") =>
         LET line_indent_spaces == LineIndentSpaces(CurrentLine(r))
             kept == KeptFrames(block_stack[r], line_indent_spaces)
             markup == ClosingMarkup(PoppedFrames(block_stack[r], line_indent_spaces))
             n == Len(html_output_buffer)
             word == LineWord(CurrentLine(r))
             skip == SkipAfterClosing(r, line_indent_spaces)
         IN
         /\ \/ block_stack'[r] = kept
            \/ /\ Front(block_stack'[r]) = kept
               /\ Last(block_stack'[r]).indent = line_indent_spaces
               /\ Len(block_stack'[r]) = Len(kept) + 1
         /\ Len(html_output_buffer') >= n + Len(markup)
         /\ SubSeq(html_output_buffer', 1, n) = html_output_buffer
         /\ Unindented(SubSeq(html_output_buffer', n + 1, n + Len(markup))) = markup
         /\ skip => pc'[r] = "loop" /\ Len(html_output_buffer') = n + Len(markup)
         /\ (~skip /\ word = "paragraph" /\ QuotedMatch(ArgString(CurrentLine(r))).ok) =>
              /\ Len(html_output_buffer') = n + Len(markup) + 1
              /\ StartsWith(LStrip(Last(html_output_buffer')), "<p ")
         /\ (~skip /\ word = "item" /\ TopType(kept) # "list") =>
              /\ pc'[r] = "exited"
              /\ Len(html_output_buffer') = n + Len(markup)
         /\ (~skip /\ word \in {"card_body", "card_footer"} /\ TopType(kept) # "card") =>
              /\ pc'[r] = "exited"
              /\ Len(html_output_buffer') = n + Len(markup)]_vars

\* reached: a paragraph line at the indentation of an open section has closed
\* the section and then emitted its own line
C19_Witness ==
  \E r \in Runs :
    /\ pc[r] = "loop"
    /\ current_line_index[r] >= 4
    /\ LineWord(PreviousLine(r)) = "paragraph"
    /\ LineWord(lines[r][current_line_index[r] - 1]) = "section"
    /\ LineIndentSpaces(PreviousLine(r))
         = LineIndentSpaces(lines[r][current_line_index[r] - 1])
    /\ Len(html_output_buffer) >= 3
    /\ StartsWith(LStrip(Last(html_output_buffer)), "<p ")
    /\ LStrip(html_output_buffer[Len(html_output_buffer) - 1]) = "</section>"

\* the closing pass of a line of this indentation pops a Page frame of r
PopsPage(r, line_indent_spaces) ==
  \E i \in 1..Len(block_stack[r]) :
    /\ block_stack[r][i].cmd_type = "page"
    /\ block_stack[r][i].indent >= line_indent_spaces

\* a tag is on the open-tag stack
TagOpen(tag) == \E i \in 1..Len(html_tag_stack) : html_tag_stack[i] = tag

\* C20: a line whose closing pass pops a Page frame has </body> and then
\* </html> appended for it and body popped from the open-tag stack: after the
\* step of a line that opens no page itself, the open-tag stack holds no tag
\* the page pushed.
C20_PageCloseRestoresTagStack ==
  [][\A r \in Runs :
       (/\ AtLine(r)
        /\ StepOf(r)
        /\ LineWord(CurrentLine(r)) \notin {"#comment", "page"}
        /\ PopsPage(r, LineIndentSpaces(CurrentLine(r))))
       =>
        /\ \E i \in (Len(html_output_buffer) + 1)..(Len(html_output_buffer') - 1) :
             /\ LStrip(html_output_buffer'[i]) = "</body>"
             /\ LStrip(html_output_buffer'[i + 1]) = "</html>"
        /\ ~TagOpen("body")'
        /\ ~TagOpen("html")']_vars

\* ------------------------------------------------------------------------
\* conditions without a comparison
\* ------------------------------------------------------------------------

\* the condition of the if line invocation r is at
ConditionOf(r) == ArgString(CurrentLine(r))

\* a condition with no ==, no != that is no spelling of a boolean literal
IsPlainName(condition_expr) ==
  /\ Find(condition_expr, "==", 1) = 0
  /\ Find(condition_expr, "!=", 1) = 0
  /\ Lower(condition_expr) \notin {"true", "false"}

\* the stored values under which a name counts as false: never set,
\* Undefined, Boolean false, the String "false", the Number 0, the empty String
CountsAsFalse(store, name) ==
  \/ name \notin DOMAIN store
  \/ store[name].k = "none"
  \/ store[name].k = "bool" /\ ~store[name].b
  \/ store[name].k = "str" /\ store[name].s \in {"false", ""}
  \/ store[name].k = "int" /\ store[name].n = 0
  \/ store[name].k = "float" /\ store[name].s \in {"0.0", "-0.0"}

\* the result the if line executed in this step has pushed
PushedResult(r) == Last(if_conditions_met_stack'[r])

\* C21: an executed if whose condition is a plain name (no ==, no !=, not a
\* boolean literal) never ends the run, and its result is false exactly when
\* the name is not set or holds Undefined, Boolean false, the String "false",
\* the Number 0 or the empty String.
C21_NameTruthiness ==
  [][\A r \in Runs :
       (/\ Executes(r, "if")
        /\ StepOf(r)
        /\ IsPlainName(ConditionOf(r)))
       => /\ pc'[r] = "loop"
          /\ stdout' = stdout
          /\ PushedResult(r) = ~CountsAsFalse(Closed(r).variables, ConditionOf(r))]_vars

\* C22: an executed if whose condition is a spelling of true in any letter
\* case has the result true and lets its body run, and one whose condition is
\* a spelling of false has the result false, whatever the variables hold.
C22_LiteralsAnyCase ==
  [][\A r \in Runs :
       (/\ Executes(r, "if")
        /\ StepOf(r))
       => /\ Lower(ConditionOf(r)) = "true"
               => PushedResult(r) /\ ~skip_current_block'[r]
          /\ Lower(ConditionOf(r)) = "false" => ~PushedResult(r)]_vars

\* ------------------------------------------------------------------------
\* lines under a true skip flag
\* ------------------------------------------------------------------------

\* C23: a line that is not a comment and whose closing pass leaves the skip
\* flag true is discarded whatever its text: the run goes on to the next line,
\* nothing is printed, the buffer and the tag stack get the closing pass's
\* markup and nothing else, no frame is pushed, no variable, conditional
\* result or output file name changes; the frames at or beyond the line's
\* indentation are still closed.
C23_SkippedLineDiscarded ==
  [][\A r \in Runs :
       (/\ AtLine(r)
        /\ StepOf(r)
        /\ LineWord(CurrentLine(r)) # "#comment"
        /\ Closed(r).skip_current_block)
       => /\ OnlyClosingPass(r)
          /\ stdout' = stdout
          /\ block_stack'[r]
               = KeptFrames(block_stack[r], LineIndentSpaces(CurrentLine(r)))]_vars

\* reached: a run has ended normally after a line the command pattern does
\* not match, a misplaced item, an assignment, an output_html and an if were
\* met under a false if; no variable is set, the file name is the default one
\* and only the line after the block was emitted
C23_Witness ==
  \E r \in Runs :
    /\ pc[r] = "done"
    /\ Len(lines[r]) = 9
    /\ lines[r][3] = "if false:"
    /\ LineWord(lines[r][4]) = "#malformed"
    /\ LineWord(lines[r][5]) = "item"
    /\ LineWord(lines[r][7]) = "output_html"
    /\ variables = EmptyDict
    /\ output_filename = "index.html"
    /\ html_output_buffer = <<"<p >a</p>">>
    /\ stdout[Len(stdout)] # ""
    /\ \A i \in 1..Len(stdout) : Find(stdout[i], "Error", 1) = 0

\* ------------------------------------------------------------------------
\* the output file name
\* ------------------------------------------------------------------------

\* the file name is index.html when a run starts
StartsAsDefault ==
  [][\A r \in Runs :
       pc[r] = "idle" /\ pc'[r] # "idle" => output_filename' = "index.html"]_vars

\* only an executed output_html line changes the file name of a run
ChangedByOutputHtmlOnly ==
  [][\A r \in Runs :
       (/\ pc[r] # "idle"
        /\ StepOf(r)
        /\ output_filename' # output_filename)
       => Executes(r, "output_html")]_vars

\* an executed output_html line that finds a name set in this run keeps it
SetOnlyOnce ==
  [][\A r \in Runs :
       (/\ Executes(r, "output_html")
        /\ StepOf(r)
        /\ output_filename # "index.html")
       => output_filename' = output_filename]_vars

\* the name is used where the file is written, and the file gets that name
ReadAtWrite ==
  [][files' # files =>
       /\ \E r \in Runs : pc[r] = "write"
       /\ Last(files').name = output_filename]_vars

\* C24: the output file name is index.html at the start of a run, is changed
\* only by an executed output_html line, is changed at most once in a run
\* (an output_html executed after another one leaves the name alone), and
\* names the file when the output is written at the end of the run.
C24_FileNameSetOnce ==
  /\ StartsAsDefault
  /\ ChangedByOutputHtmlOnly
  /\ SetOnlyOnce
  /\ ReadAtWrite

====
